---- MODULE Spec2Model ----
(***************************************************************************)
(* Agent invocation pipeline of OpenClaw (clawdis):                        *)
(*   - the command queue that admits runCommandReply jobs,                 *)
(*   - one runCommandReply invocation: the stream reducer driven by the    *)
(*     runner's onEvent lines, its debounce timer, and the construction of *)
(*     the reply payloads after the runner returns.                        *)
(*   - the functions of runCommandReply that work on the whole output     *)
(*     (fallback text, prompt echo, failure payloads, forced rpc mode),    *)
(*   - the fast abort of auto-reply/reply/abort.ts,                        *)
(*   - the loading and persisting of the cron store (cron/service/store),  *)
(*   - splitMediaFromOutput of media/parse.ts,                             *)
(*   - the Control UI: settings and password, the chat run, the skills     *)
(*     and sessions views,                                                 *)
(*   - the work activity store of the macOS app.                           *)
(* The state machines share the variable list: QueueSpec (many invocations *)
(* going through the queue), Spec and StreamSpec (one invocation's run),   *)
(* ReplySpec, ArgvSpec and MediaSpec (one function applied to its inputs), *)
(* AbortSpec (abort requests against a session store), CronSpec (loads and *)
(* persists of one job file), LoadsSpec (overlapping loads of one cron     *)
(* state), AppSpec, ChatSpec and CtrlSpec (the Control UI), WorkSpec and   *)
(* WorkFairSpec (the work activity store).                                 *)
(***************************************************************************)
EXTENDS Integers, Sequences, FiniteSets, TLC

VARIABLES
    \* ---- command queue, one slot per runCommandReply invocation ----
    jobState,       \* job -> "idle" | "queued" | "running" | "done"
    queue,          \* waiting jobs, head first
    aheadAt,        \* job -> jobs in front of it when it was queued
    jobResult,      \* job -> None | <<outcome>> of its run
    queuedMs,       \* job -> None | <<waitMs>>   (part_005:522)
    queuedAhead,    \* job -> None | <<ahead>>    (part_005:523)
    enqOrder,       \* history: jobs in the order of their enqueue calls
    admitted,       \* history: jobs in the order they entered execution
    onWaitCalls,    \* history: job -> number of onWait calls
    startedDirect,  \* history: jobs that started within their enqueue call
    \* ---- one runCommandReply invocation ----
    pc,                     \* "running" | "returned" | "threw" | "done"
    onPartialReply,         \* TRUE iff params.onPartialReply was supplied
    pendingToolName,        \* part_005:525
    pendingMetas,           \* part_005:526
    pendingTimer,           \* part_005:527, None | <<timer id>>
    timers,                 \* timer ids armed in the event loop
    streamedAny,            \* part_005:528
    lastStreamedAssistant,  \* part_005:548
    delivered,              \* history: payloads handed to onPartialReply
    nEvents,                \* lines consumed by onEvent so far
    toolLog,                \* history: the tool results, and the timer expiries
                            \*          that emitted a payload, in order
    returned,               \* None | <<what runCommandReply returned>>, with
                            \*        the reply items it had built (history)
    \* ---- one application of a function of the source ----
    input,                  \* None | <<the arguments>>
    output,                 \* None | <<the value returned>>
    \* ---- fast abort (abort.ts) ----
    sessionStore,           \* the persisted store: key -> None | <<entry>>
    abortMemory,            \* ABORT_MEMORY: key -> None | <<boolean>>
    liveRuns,               \* session ids with a live embedded run
    storeWrites,            \* history: number of saveSessionStore calls
    abortLog,               \* history: the abort requests, their results and
                            \*          whether the store was loaded
    \* ---- the cron store (cron/service/store.ts) ----
    cronFile,               \* the store file: None | <<[mtimeMs, jobs]>>
    cronNow,                \* the clock of nowMs() and of the file system
    state,                  \* CronServiceState: store, storeLoadedAtMs,
                            \*                   storeFileMtimeMs
    cronHist,               \* history: calls, early returns of ensureLoaded,
                            \*          reads of the file, recomputations and
                            \*          persists so far, who wrote the file last
    \* ---- the Control UI application (ClawdisApp, part_003) ----
    settings,               \* part_003:71, None | <<UiSettings>>
    password,               \* part_003:72
    appSessionKey,          \* part_003:80 (sessionKey)
    client,                 \* None | <<options of the GatewayBrowserClient>>
    savedSettings,          \* history: the values handed to saveSettings
    \* ---- overlapping calls on one cron state (store.ts) ----
    loads,                  \* call -> where it is suspended, what it holds
    chat,                   \* the chat state of the Control UI
    ctrl,                   \* the skills and sessions views and their requests
    work                    \* the work activity store and its delayed clears

queueVars == <<jobState, queue, aheadAt, jobResult, queuedMs,
               queuedAhead, enqOrder, admitted, onWaitCalls, startedDirect>>
runVars == <<pc, onPartialReply, pendingToolName, pendingMetas, pendingTimer,
             timers, streamedAny, lastStreamedAssistant, delivered,
             nEvents, toolLog, returned>>
fnVars == <<input, output>>
abortVars == <<sessionStore, abortMemory, liveRuns, storeWrites, abortLog>>
cronVars == <<cronFile, cronNow, state, cronHist>>
appVars == <<settings, password, appSessionKey, client, savedSettings>>
uiVars == <<chat, ctrl, work>>
extVars == <<appVars, loads, uiVars>>
vars == <<queueVars, runVars, fnVars, abortVars, cronVars, extVars>>

\* An optional value: None, or a one-element sequence.
None == <<>>
Some(x) == <<x>>

\* An undefined string.
NULL == "<undefined>"

\* The variables of the parts a specification leaves out.
FnIdleVars == input = None /\ output = None

AbortIdleVars ==
    /\ sessionStore = <<>>
    /\ abortMemory = <<>>
    /\ liveRuns = {}
    /\ storeWrites = 0
    /\ abortLog = <<>>

CronIdleVars ==
    /\ cronFile = None
    /\ cronNow = 0
    /\ state = None
    /\ cronHist = None

AppIdleVars ==
    /\ settings = None
    /\ password = <<>>
    /\ appSessionKey = None
    /\ client = None
    /\ savedSettings = {}

LoadsIdleVars == loads = <<>>

UiIdleVars == chat = <<>> /\ ctrl = <<>> /\ work = <<>>

ExtIdleVars == AppIdleVars /\ LoadsIdleVars /\ UiIdleVars

----------------------------------------------------------------------------
(* Bounds of the model.                                                    *)
NumJobs == 4
MaxEvents == 4
MaxReplyEvents == 2

Jobs == 1..NumJobs

\* The waiting times onWait can report: none measurable, or some.
WaitTimes == {0, 1}

----------------------------------------------------------------------------
(* Command queue: enqueue(job, {onWait}) -> RunResult.                      *)

\* The fixed concurrency limit of the queue.
ConcurrencyLimit == 2

Running == {j \in Jobs : jobState[j] = "running"}

\* The outcomes of a job's task: exit 0, a non-zero exit, or a throw.
JobOutcomes == {"ok", "nonzero", "throw"}

\* queuedMs and queuedAhead initialised to a number instead of undefined.
QueuedUnset_Zero == Some(0)

\* part_005:522-523: queuedMs and queuedAhead start undefined.
QueuedUnset == None

\* part_005:735-737: the onWait callback runCommandReply hands to enqueue.
OnWait(j, waitMs, ahead) ==
    /\ queuedMs' = [queuedMs EXCEPT ![j] = Some(waitMs)]
    /\ queuedAhead' = [queuedAhead EXCEPT ![j] = Some(ahead)]
    /\ onWaitCalls' = [onWaitCalls EXCEPT ![j] = @ + 1]

\* The jobs the queue admits when `free` slots are open: the head of the queue.
Admit(q, free) == SubSeq(q, 1, IF free < Len(q) THEN free ELSE Len(q))

Rest(q, k) == SubSeq(q, k + 1, Len(q))

\* A job that starts inside its enqueue call, without the off-by-one bound.
CanStartNow_OffByOne ==
    Cardinality(Running) <= ConcurrencyLimit /\ queue = <<>>

\* A job starts inside its enqueue call iff a slot is free and nobody waits.
CanStartNow ==
    Cardinality(Running) < ConcurrencyLimit /\ queue = <<>>

\* enqueue: the job starts at once when a slot is free, otherwise it waits
\* at the tail of the queue.
Enqueue(j) ==
    /\ jobState[j] = "idle"
    /\ j = Len(enqOrder) + 1      \* jobs are numbered in submission order
    /\ enqOrder' = Append(enqOrder, j)
    /\ IF CanStartNow
         THEN /\ jobState' = [jobState EXCEPT ![j] = "running"]
              /\ admitted' = Append(admitted, j)
              /\ startedDirect' = startedDirect \cup {j}
              /\ UNCHANGED <<queue, aheadAt>>
         ELSE /\ jobState' = [jobState EXCEPT ![j] = "queued"]
              /\ queue' = Append(queue, j)
              /\ aheadAt' = [aheadAt EXCEPT ![j] = Len(queue)]
              /\ UNCHANGED <<admitted, startedDirect>>
    /\ UNCHANGED <<jobResult, queuedMs, queuedAhead, onWaitCalls>>

\* A queue whose drain loop dies with the job that throws.
DrainsAfter_StopOnThrow(outcome) == outcome # "throw"

\* Whether the queue goes on admitting after a job ended with `outcome`.
DrainsAfter(outcome) == TRUE

\* A running job ends (its RunResult is produced, or its task throws); the
\* freed slot is given to the head of the queue, whose onWait fires first
\* with the time it spent waiting.
Complete(j, outcome, waitMs) ==
    /\ jobState[j] = "running"
    /\ jobResult' = [jobResult EXCEPT ![j] = Some(outcome)]
    /\ LET free == IF DrainsAfter(outcome) THEN 1 ELSE 0
           adm == Admit(queue, free)
       IN /\ queue' = Rest(queue, Len(adm))
          /\ admitted' = admitted \o adm
          /\ jobState' = [k \in Jobs |->
                            IF k = j THEN "done"
                            ELSE IF Len(adm) > 0 /\ k = adm[1] THEN "running"
                            ELSE jobState[k]]
          /\ IF Len(adm) > 0
               THEN OnWait(adm[1], waitMs, aheadAt[adm[1]])
               ELSE UNCHANGED <<queuedMs, queuedAhead, onWaitCalls>>
    /\ UNCHANGED <<aheadAt, enqOrder, startedDirect>>

QueueInitVars ==
    /\ jobState = [j \in Jobs |-> "idle"]
    /\ queue = <<>>
    /\ aheadAt = [j \in Jobs |-> 0]
    /\ jobResult = [j \in Jobs |-> None]
    /\ queuedMs = [j \in Jobs |-> QueuedUnset]
    /\ queuedAhead = [j \in Jobs |-> QueuedUnset]
    /\ enqOrder = <<>>
    /\ admitted = <<>>
    /\ onWaitCalls = [j \in Jobs |-> 0]
    /\ startedDirect = {}

RunIdleVars ==
    /\ pc = "running"
    /\ onPartialReply = FALSE
    /\ pendingToolName = NULL
    /\ pendingMetas = <<>>
    /\ pendingTimer = None
    /\ timers = {}
    /\ streamedAny = FALSE
    /\ lastStreamedAssistant = None
    /\ delivered = <<>>
    /\ nEvents = 0
    /\ toolLog = <<>>
    /\ returned = None

QueueInit == QueueInitVars /\ RunIdleVars /\ FnIdleVars /\ AbortIdleVars /\ CronIdleVars /\ ExtIdleVars

QueueNext ==
    \/ \E j \in Jobs : Enqueue(j) /\ UNCHANGED <<runVars, fnVars, abortVars, cronVars, extVars>>
    \/ \E j \in Jobs, o \in JobOutcomes, w \in WaitTimes :
          Complete(j, o, w) /\ UNCHANGED <<runVars, fnVars, abortVars, cronVars, extVars>>

QueueSpec == QueueInit /\ [][QueueNext]_vars

\* Every running job ends: the runner kills its subprocess at timeoutMs.
QueueFairSpec ==
    QueueSpec /\ \A j \in Jobs :
        WF_vars(\E o \in JobOutcomes, w \in WaitTimes :
                   Complete(j, o, w) /\ UNCHANGED <<runVars, fnVars, abortVars, cronVars, extVars>>)

----------------------------------------------------------------------------
(* Texts.  A text is a sequence of symbols: the words "a", "b", "done",    *)
(* the blank " ", the line break "\n", the token "MEDIA:", the media paths *)
(* "/p" and "/long", the URL "http://x", the scheme "file://", the quote   *)
(* "'", the brackets "[[" and "]]", the tag name "audio_as_voice" (and in  *)
(* capitals) and the fence "~~~".  The string functions of the source are  *)
(* computed on them.                                                       *)

IsSpace(c) == c \in {" ", "\n"}

\* A \w character ends the symbol (decides \b in front of the next symbol).
EndsInWordChar(c) ==
    c \in {"a", "b", "done", "/p", "/long", "http://x", "audio_as_voice",
           "AUDIO_AS_VOICE"}

RECURSIVE TrimStart(_)
TrimStart(s) ==
    IF s = <<>> THEN <<>>
    ELSE IF IsSpace(Head(s)) THEN TrimStart(Tail(s)) ELSE s

RECURSIVE TrimEnd(_)
TrimEnd(s) ==
    IF s = <<>> THEN <<>>
    ELSE IF IsSpace(s[Len(s)]) THEN TrimEnd(SubSeq(s, 1, Len(s) - 1)) ELSE s

\* String.prototype.trim
Trim(s) == TrimEnd(TrimStart(s))

\* Array.prototype.join(sep)
RECURSIVE Join(_, _)
Join(parts, sep) ==
    IF parts = <<>> THEN <<>>
    ELSE IF Len(parts) = 1 THEN parts[1]
    ELSE parts[1] \o sep \o Join(Tail(parts), sep)

\* [w1, w2] -> the texts "w1", "w2"
AsTexts(parts) == [i \in 1..Len(parts) |-> <<parts[i]>>]

\* String.prototype.split("\n")
RECURSIVE SplitLinesFrom(_, _)
SplitLinesFrom(s, cur) ==
    IF s = <<>> THEN <<cur>>
    ELSE IF Head(s) = "\n" THEN <<cur>> \o SplitLinesFrom(Tail(s), <<>>)
    ELSE SplitLinesFrom(Tail(s), Append(cur, Head(s)))

SplitLines(s) == SplitLinesFrom(s, <<>>)

\* replace(/[ \t]{2,}/g, " ")
RECURSIVE CollapseBlanks(_)
CollapseBlanks(s) ==
    IF Len(s) < 2 THEN s
    ELSE IF s[1] = " " /\ s[2] = " " THEN CollapseBlanks(Tail(s))
    ELSE <<s[1]>> \o CollapseBlanks(Tail(s))

\* A run of blanks (possibly empty) followed by a line break starts s.
RECURSIVE BlanksThenBreak(_)
BlanksThenBreak(s) ==
    s # <<>> /\ (s[1] = "\n" \/ (s[1] = " " /\ BlanksThenBreak(Tail(s))))

\* replace(/[ \t]+\n/g, "\n")
RECURSIVE StripBlanksBeforeBreak(_)
StripBlanksBeforeBreak(s) ==
    IF s = <<>> THEN <<>>
    ELSE IF s[1] = " " /\ BlanksThenBreak(Tail(s))
      THEN StripBlanksBeforeBreak(Tail(s))
      ELSE <<s[1]>> \o StripBlanksBeforeBreak(Tail(s))

\* replace(/\n{2,}/g, "\n")
RECURSIVE CollapseBreaks(_)
CollapseBreaks(s) ==
    IF Len(s) < 2 THEN s
    ELSE IF s[1] = "\n" /\ s[2] = "\n" THEN CollapseBreaks(Tail(s))
    ELSE <<s[1]>> \o CollapseBreaks(Tail(s))

\* filter(Boolean) on a list of texts
RECURSIVE NonEmpty(_)
NonEmpty(ts) ==
    IF ts = <<>> THEN <<>>
    ELSE IF Head(ts) = <<>> THEN NonEmpty(Tail(ts))
    ELSE <<Head(ts)>> \o NonEmpty(Tail(ts))

----------------------------------------------------------------------------
(* media/parse.ts                                                           *)

\* The characters cleanCandidate strips from the front of a candidate
\* (backticks, quotes, opening brackets) and from its end (backticks,
\* quotes, backslashes, closing brackets, commas).
LeadingWrap == {"'", "[["}

TrailingWrap == {"'", "]]"}

RECURSIVE StripLeading(_)
StripLeading(raw) ==
    IF raw # <<>> /\ Head(raw) \in LeadingWrap THEN StripLeading(Tail(raw))
    ELSE raw

RECURSIVE StripTrailing(_)
StripTrailing(raw) ==
    IF raw # <<>> /\ raw[Len(raw)] \in TrailingWrap
      THEN StripTrailing(SubSeq(raw, 1, Len(raw) - 1))
      ELSE raw

cleanCandidate(raw) == StripTrailing(StripLeading(raw))

\* src.startsWith("file://") ? src.replace("file://", "") : src
normalizeMediaSource(src) ==
    IF src # <<>> /\ Head(src) = "file://" THEN Tail(src) ELSE src

\* The number of characters of a symbol: "/long" is a path of 1023
\* characters.
SymLen(c) ==
    CASE c = "/long" -> 1023
      [] c \in {"audio_as_voice", "AUDIO_AS_VOICE"} -> 14
      [] c = "file://" -> 7
      [] c = "http://x" -> 8
      [] c = "MEDIA:" -> 6
      [] c = "done" -> 4
      [] c = "~~~" -> 3
      [] c \in {"/p", "[[", "]]"} -> 2
      [] OTHER -> 1

\* String.prototype.length
RECURSIVE Length(_)
Length(s) == IF s = <<>> THEN 0 ELSE SymLen(Head(s)) + Length(Tail(s))

\* parse.ts:18: the length above which a candidate is refused.
MaxMediaLength == 1024

\* if (candidate.length > 1024) return false;
TooLong(candidate) == Length(candidate) > MaxMediaLength

\* The symbols that start with http(s)://, "/" or "./".
SourceStarts == {"http://x", "/p", "/long"}

isValidMedia(candidate) ==
    /\ candidate # <<>>
    /\ ~TooLong(candidate)
    /\ \A i \in 1..Len(candidate) : ~IsSpace(candidate[i])
    /\ Head(candidate) \in SourceStarts

\* isValidMedia(normalizeMediaSource(cleanCandidate(part))) of a part.
IsValidMedia(part) == isValidMedia(normalizeMediaSource(cleanCandidate(part)))

\* Index of the match of MEDIA_TOKEN_RE in a line, 0 if none: the first
\* MEDIA: at a word boundary that has at least one character after it.
\* (The payload [^\n]+ runs to the end of the line: a line has one match.)
RECURSIVE MediaMatchFrom(_, _)
MediaMatchFrom(line, i) ==
    IF i >= Len(line) THEN 0
    ELSE IF line[i] = "MEDIA:" /\ (i = 1 \/ ~EndsInWordChar(line[i - 1])) THEN i
    ELSE MediaMatchFrom(line, i + 1)

\* payload.split(/\s+/).filter(Boolean): the parts of a payload, each a text
RECURSIVE WordsFrom(_, _)
WordsFrom(s, cur) ==
    IF s = <<>> THEN NonEmpty(<<cur>>)
    ELSE IF IsSpace(Head(s)) THEN NonEmpty(<<cur>>) \o WordsFrom(Tail(s), <<>>)
    ELSE WordsFrom(Tail(s), Append(cur, Head(s)))

Words(s) == WordsFrom(s, <<>>)

\* media.push(candidate) for every part that is valid   (parse.ts:88-93)
RECURSIVE MediaOf(_)
MediaOf(parts) ==
    IF parts = <<>> THEN <<>>
    ELSE IF IsValidMedia(Head(parts))
           THEN <<normalizeMediaSource(cleanCandidate(Head(parts)))>>
                  \o MediaOf(Tail(parts))
           ELSE MediaOf(Tail(parts))

\* invalidParts.push(part) for every other part   (parse.ts:93-95)
RECURSIVE InvalidParts(_)
InvalidParts(parts) ==
    IF parts = <<>> THEN <<>>
    ELSE IF IsValidMedia(Head(parts)) THEN InvalidParts(Tail(parts))
    ELSE <<Head(parts)>> \o InvalidParts(Tail(parts))

\* The line without its match: what precedes the token, then the invalid
\* parts if the line has a valid media, cleaned   (parse.ts:98-110)
CleanedLine(line, at, media, invalidParts) ==
    Trim(CollapseBlanks(
        SubSeq(line, 1, at - 1)
          \o (IF media # <<>> /\ invalidParts # <<>>
                THEN Join(invalidParts, <<" ">>)
                ELSE <<>>)))

\* A line with a match at `at`, `parts` being the parts of its payload:
\* the media found and the line as kept (none if it became empty).
LineWithToken(line, at, parts) ==
    [token |-> TRUE,
     media |-> MediaOf(parts),
     kept |-> NonEmpty(<< CleanedLine(line, at, MediaOf(parts),
                                      InvalidParts(parts)) >>)]

SplitLineAt(line, at) ==
    IF at = 0
      THEN [token |-> FALSE, media |-> <<>>, kept |-> <<line>>]
      ELSE LineWithToken(line, at, Words(SubSeq(line, at + 1, Len(line))))

\* One line of splitMediaFromOutput's loop, outside a fenced block.
SplitLine(line) == SplitLineAt(line, MediaMatchFrom(line, 1))

MergeLines(h, t) ==
    [token |-> h.token \/ t.token,
     media |-> h.media \o t.media,
     kept |-> h.kept \o t.kept]

\* A line that opens or closes a fenced code block.
IsFenceLine(line) == line # <<>> /\ Head(line) = "~~~"

\* The fenced code blocks of a text, as the lines they span: from an opening
\* fence to its closing fence, or to the end of the text.
parseFenceSpans(lines) ==
    {i \in 1..Len(lines) :
        \/ IsFenceLine(lines[i])
        \/ Cardinality({k \in 1..(i - 1) : IsFenceLine(lines[k])}) % 2 = 1}

\* The line at offset i starts inside a fenced block.
isInsideFence(fenceSpans, i) == i \in fenceSpans

\* The loop over the lines from line i on   (parse.ts:61-117)
RECURSIVE SplitLinesAt(_, _, _)
SplitLinesAt(lines, fenceSpans, i) ==
    IF i > Len(lines) THEN [token |-> FALSE, media |-> <<>>, kept |-> <<>>]
    ELSE MergeLines(
           IF isInsideFence(fenceSpans, i)
             THEN [token |-> FALSE, media |-> <<>>, kept |-> <<lines[i]>>]
             ELSE SplitLine(lines[i]),
           SplitLinesAt(lines, fenceSpans, i + 1))

SplitAllLines(lines) == SplitLinesAt(lines, parseFenceSpans(lines), 1)

\* keptLines joined and cleaned   (parse.ts:119-124)
CleanedText(keptLines) ==
    Trim(CollapseBreaks(CollapseBlanks(
        StripBlanksBeforeBreak(Join(keptLines, <<"\n">>)))))

\* /\[\[audio_as_voice\]\]/i matches at the start of s.
TagAtHead(s) ==
    /\ Len(s) >= 3
    /\ s[1] = "[[" /\ s[2] \in {"audio_as_voice", "AUDIO_AS_VOICE"} /\ s[3] = "]]"

\* AUDIO_AS_VOICE_TEST_RE.test(s)
HasAudioAsVoice(s) == \E i \in 1..Len(s) : TagAtHead(SubSeq(s, i, Len(s)))

\* replace(AUDIO_AS_VOICE_RE, "")
RECURSIVE StripAudioTag(_)
StripAudioTag(s) ==
    IF s = <<>> THEN <<>>
    ELSE IF TagAtHead(s) THEN StripAudioTag(SubSeq(s, 4, Len(s)))
    ELSE <<Head(s)>> \o StripAudioTag(Tail(s))

\* The cleaned text without the tag   (parse.ts:128-134)
WithoutAudioTag(cleanedText) ==
    IF HasAudioAsVoice(cleanedText)
      THEN Trim(CollapseBreaks(CollapseBlanks(StripAudioTag(cleanedText))))
      ELSE cleanedText

\* The result, `r` being what the loop over the lines found and cleanedText
\* the kept lines joined   (parse.ts:126-150)
ResultOf(trimmedRaw, r, cleanedText) ==
    [text |-> IF r.media = <<>> /\ ~r.token /\ ~HasAudioAsVoice(cleanedText)
                THEN trimmedRaw
                ELSE WithoutAudioTag(cleanedText),
     mediaUrls |-> r.media,
     mediaUrl |-> IF r.media = <<>> THEN None ELSE Some(r.media[1]),
     audioAsVoice |-> HasAudioAsVoice(cleanedText)]

SplitResult(trimmedRaw, r) == ResultOf(trimmedRaw, r, CleanedText(r.kept))

SplitTrimmed(trimmedRaw) ==
    IF Trim(trimmedRaw) = <<>>
      THEN [text |-> <<>>, mediaUrls |-> <<>>, mediaUrl |-> None,
            audioAsVoice |-> FALSE]
      ELSE SplitResult(trimmedRaw, SplitAllLines(SplitLines(trimmedRaw)))

\* splitMediaFromOutput(raw): the cleaned text, the media references
\* (mediaUrls = <<>> and mediaUrl = None for absent ones) and the voice flag
\* (FALSE for an absent audioAsVoice).
splitMediaFromOutput(raw) == SplitTrimmed(TrimEnd(raw))

----------------------------------------------------------------------------
(* The stream reducer of runCommandReply (part_005:525-732).               *)

\* The count of pending metas at which the aggregate is flushed at once.
TOOL_RESULT_FLUSH_COUNT == 4

\* The reducer's local variables, as one record.
Reducer ==
    [pendingToolName |-> pendingToolName, pendingMetas |-> pendingMetas,
     pendingTimer |-> pendingTimer, timers |-> timers,
     streamedAny |-> streamedAny,
     lastStreamedAssistant |-> lastStreamedAssistant, delivered |-> delivered]

SetReducer(st) ==
    /\ pendingToolName' = st.pendingToolName
    /\ pendingMetas' = st.pendingMetas
    /\ pendingTimer' = st.pendingTimer
    /\ timers' = st.timers
    /\ streamedAny' = st.streamedAny
    /\ lastStreamedAssistant' = st.lastStreamedAssistant
    /\ delivered' = st.delivered

\* A ReplyPayload: text and mediaUrls (<<>> for an absent one).
Payload(text, mediaUrls) == [text |-> text, mediaUrls |-> mediaUrls]

ToolHeader(name) ==
    CASE name = "A" -> "[A]"
      [] name = "B" -> "[B]"
      [] OTHER -> "[tool]"

ToolHeaders == {"[A]", "[B]", "[tool]"}

\* formatToolAggregate(toolName, metas): the tool's header followed by the
\* metas, in order.
formatToolAggregate(name, metas) ==
    <<ToolHeader(name)>>
      \o (IF metas = <<>> THEN <<>> ELSE <<" ">> \o Join(AsTexts(metas), <<",", " ">>))

\* clearTimeout(pendingTimer); pendingTimer = null   (part_005:543-546)
ClearPendingTimer(st) ==
    IF st.pendingTimer # None
      THEN [st EXCEPT !.timers = @ \ {st.pendingTimer[1]}, !.pendingTimer = None]
      ELSE st

\* void onPartialReply({text: cleanedText, mediaUrls: mediaFound});
\* streamedAny = true   (part_005:534-540, 561-567)
Emit(st, r) ==
    [st EXCEPT !.delivered = Append(@, Payload(r.text, r.mediaUrls)),
               !.streamedAny = TRUE]

\* pendingToolName = undefined; pendingMetas = []   (part_005:541-542)
ClearAggregate(st) ==
    [st EXCEPT !.pendingToolName = NULL, !.pendingMetas = <<>>]

\* flushPendingTool that emits without clearing the aggregate.
flushPendingTool_KeepsMetas(st) ==
    IF ~onPartialReply THEN st
    ELSE IF st.pendingToolName = NULL /\ st.pendingMetas = <<>> THEN st
    ELSE ClearPendingTimer(
           Emit(st, splitMediaFromOutput(
                      formatToolAggregate(st.pendingToolName, st.pendingMetas))))

\* flushPendingTool   (part_005:530-547)
flushPendingTool(st) ==
    IF ~onPartialReply THEN st
    ELSE IF st.pendingToolName = NULL /\ st.pendingMetas = <<>> THEN st
    ELSE ClearPendingTimer(ClearAggregate(
           Emit(st, splitMediaFromOutput(
                      formatToolAggregate(st.pendingToolName, st.pendingMetas)))))

\* The trimmed, non-empty text blocks of a message content (part_005:551-556).
RECURSIVE TextBlocks(_)
TextBlocks(blocks) ==
    IF blocks = <<>> THEN <<>>
    ELSE LET b == Head(blocks)
         IN (IF b.type = "text" /\ Trim(b.text) # <<>> THEN <<Trim(b.text)>> ELSE <<>>)
              \o TextBlocks(Tail(blocks))

\* streamAssistantFinal from `combined` on, without the comparison with the
\* last streamed text.
StreamCombined_NoDedup(st, combined) ==
    IF combined = <<>> THEN st
    ELSE Emit([st EXCEPT !.lastStreamedAssistant = Some(combined)],
              splitMediaFromOutput(combined))

\* streamAssistantFinal from `combined` on   (part_005:559-567)
StreamCombined(st, combined) ==
    IF combined = <<>> \/ Some(combined) = st.lastStreamedAssistant THEN st
    ELSE Emit([st EXCEPT !.lastStreamedAssistant = Some(combined)],
              splitMediaFromOutput(combined))

\* streamAssistantFinal from `textBlocks` on   (part_005:557-558)
StreamTextBlocks(st, textBlocks) ==
    IF textBlocks = <<>> THEN st
    ELSE StreamCombined(st, Trim(Join(textBlocks, <<"\n">>)))

\* streamAssistantFinal   (part_005:549-568)
streamAssistantFinal(st, msg) ==
    IF ~onPartialReply \/ msg.role # "assistant" THEN st
    ELSE StreamTextBlocks(st, IF msg.isArray THEN TextBlocks(msg.blocks) ELSE <<>>)

\* inferToolName: the first non-blank of toolName, name, toolCallId, ...
inferToolName(msg) == msg.toolName

\* inferToolMeta ?? toolMetaById.get(toolCallId); the map is never filled.
inferToolMeta(msg) == msg.meta

\* setTimeout(flushPendingTool, TOOL_RESULT_DEBOUNCE_MS) after clearing the
\* timer that pendingTimer holds   (part_005:686-690)
ArmTimer(st, id) ==
    [st EXCEPT !.timers = (IF st.pendingTimer # None
                             THEN @ \ {st.pendingTimer[1]} ELSE @) \cup {id},
               !.pendingTimer = Some(id)]

\* if (pendingToolName && toolName && toolName !== pendingToolName)
\*   flushPendingTool();   (part_005:674-676)
FlushIfToolChanged(st, toolName) ==
    IF st.pendingToolName # NULL /\ toolName # NULL
         /\ toolName # st.pendingToolName
      THEN flushPendingTool(st) ELSE st

\* if (!pendingToolName) pendingToolName = toolName;
\* if (meta) pendingMetas.push(meta);   (part_005:677-678)
RecordResult(st, toolName, meta) ==
    [st EXCEPT !.pendingToolName = IF @ = NULL THEN toolName ELSE @,
               !.pendingMetas = IF meta # NULL THEN Append(@, meta) ELSE @]

\* The count threshold, else the debounce timer   (part_005:679-691)
FlushOrArm(st, id) ==
    IF TOOL_RESULT_FLUSH_COUNT > 0
         /\ Len(st.pendingMetas) >= TOOL_RESULT_FLUSH_COUNT
      THEN flushPendingTool(st)
      ELSE ArmTimer(st, id)

\* The tool-result branch without the flush on a change of tool.
ToolResultBranch_NoNameFlush(st, msg, id) ==
    FlushOrArm(RecordResult(st, inferToolName(msg), inferToolMeta(msg)), id)

\* The tool-result branch without the count threshold.
ToolResultBranch_NoThreshold(st, msg, id) ==
    ArmTimer(RecordResult(FlushIfToolChanged(st, inferToolName(msg)),
                          inferToolName(msg), inferToolMeta(msg)), id)

\* onEvent, the tool-result branch   (part_005:647-692)
ToolResultBranch(st, msg, id) ==
    FlushOrArm(RecordResult(FlushIfToolChanged(st, inferToolName(msg)),
                            inferToolName(msg), inferToolMeta(msg)), id)

IsToolResult(ev) == ev.role \in {"toolResult", "tool_result"}

HasMessage(ev) == ev.role # NULL

\* if (msg.role === "assistant") streamAssistantFinal(msg)   (part_005:694-696)
AssistantMessage(st, ev) ==
    IF HasMessage(ev) /\ ev.type \in {"message", "message_end"}
         /\ ev.role = "assistant"
      THEN streamAssistantFinal(st, ev) ELSE st

\* The message_end of the assistant   (part_005:699-713)
AssistantMessageEnd(st, ev) ==
    IF ev.type = "message_end" /\ HasMessage(ev) /\ ev.role = "assistant"
      THEN streamAssistantFinal(st, ev) ELSE st

\* The partial reply hook   (part_005:716-727)
PartialReplyHook(st, ev) ==
    IF onPartialReply /\ HasMessage(ev) /\ ev.role = "assistant"
      THEN streamAssistantFinal(st, ev) ELSE st

\* onEvent(line), `ev` being the line as parsed   (part_005:605-728)
onEvent(st, ev, id) ==
    IF ev.type = "malformed" THEN st
    ELSE IF HasMessage(ev) /\ ev.type \in {"message", "message_end"}
              /\ IsToolResult(ev) /\ ev.isArray
      THEN ToolResultBranch(st, ev, id)
    ELSE PartialReplyHook(AssistantMessageEnd(AssistantMessage(st, ev), ev), ev)

----------------------------------------------------------------------------
(* The lines the subprocess writes, as parsed by JSON.parse.  role = NULL  *)
(* stands for an event without a message.                                  *)

Ev(type, role, isArray, blocks, toolName, meta) ==
    [type |-> type, role |-> role, isArray |-> isArray, blocks |-> blocks,
     toolName |-> toolName, meta |-> meta]

TextBlock(t) == [type |-> "text", text |-> t]

ToolResultEvents ==
    { Ev("message", "toolResult", TRUE, <<>>, "A", "mA"),
      Ev("message", "toolResult", TRUE, <<>>, "A", NULL),
      Ev("message", "toolResult", TRUE, <<>>, "B", "mB"),
      Ev("message", "toolResult", TRUE, <<>>, NULL, "mU"),
      Ev("message", "toolResult", TRUE, <<>>, NULL, NULL) }

AssistantEvents ==
    { Ev("message_end", "assistant", TRUE, <<TextBlock(<<"done">>)>>, NULL, NULL),
      Ev("message_end", "assistant", TRUE,
         <<TextBlock(<<" ", "done", "\n">>), TextBlock(<<" ">>)>>, NULL, NULL),
      Ev("message_end", "assistant", TRUE, <<TextBlock(<<"a">>)>>, NULL, NULL),
      Ev("message_end", "assistant", TRUE,
         <<TextBlock(<<"MEDIA:", " ", "a">>)>>, NULL, NULL),
      Ev("message", "assistant", TRUE, <<TextBlock(<<"done">>)>>, NULL, NULL),
      Ev("message_update", "assistant", TRUE, <<TextBlock(<<"a">>)>>, NULL, NULL) }

OtherEvents ==
    { Ev("malformed", NULL, FALSE, <<>>, NULL, NULL),
      Ev("tool_execution_start", NULL, FALSE, <<>>, "A", NULL),
      Ev("message_end", "user", TRUE, <<TextBlock(<<"a">>)>>, NULL, NULL),
      \* a type that is no event of the protocol, without and with a message
      Ev("unrecognized", NULL, FALSE, <<>>, NULL, NULL),
      Ev("unrecognized", "assistant", TRUE, <<TextBlock(<<"b">>)>>, NULL, NULL) }

Events == ToolResultEvents \cup AssistantEvents \cup OtherEvents

\* The lines of the long streams: the tool results, an assistant text that
\* ends twice (the second time with blanks around it) and a partial
\* assistant text.
StreamEvents ==
    ToolResultEvents
      \cup { Ev("message_end", "assistant", TRUE, <<TextBlock(<<"done">>)>>, NULL, NULL),
              Ev("message_end", "assistant", TRUE,
                 <<TextBlock(<<" ", "done", "\n">>), TextBlock(<<" ">>)>>, NULL, NULL),
              Ev("message_update", "assistant", TRUE, <<TextBlock(<<"a">>)>>, NULL, NULL) }

\* The history entry of a tool result: its tool and whether it has a meta.
ToolMark(ev) ==
    (IF ev.toolName = NULL THEN "U" ELSE ev.toolName)
      \o (IF ev.meta = NULL THEN "-" ELSE "+")

----------------------------------------------------------------------------
(* runCommandReply after the runner returned (part_005:745-1000) or threw  *)
(* (part_005:1001-1058).                                                    *)

\* replace(/\[[^\]]+\]\s*/g, ""): a bracketed group and the blanks after it.
RECURSIVE StripBracketed(_)
StripBracketed(s) ==
    IF s = <<>> THEN <<>>
    ELSE IF Head(s) \in ToolHeaders THEN StripBracketed(TrimStart(Tail(s)))
    ELSE <<Head(s)>> \o StripBracketed(Tail(s))

\* Symbols made of [A-Za-z0-9+()\-_. ] only.
PrefixClass(c) == c \in {"a", "b", "done", " "}

RECURSIVE FirstOutsideClass(_, _)
FirstOutsideClass(s, i) ==
    IF i > Len(s) THEN i
    ELSE IF PrefixClass(s[i]) THEN FirstOutsideClass(s, i + 1) ELSE i

\* Length of the run of \s at the start of s.
RECURSIVE BlankRun(_)
BlankRun(s) ==
    IF s = <<>> \/ ~IsSpace(Head(s)) THEN 0 ELSE 1 + BlankRun(Tail(s))

\* replace(/^[ \t]*[A-Za-z0-9+()\-_. ]+:\s*/gm, ""): a "label:" at the start
\* of a line, with the blanks (and line breaks) after it.
RECURSIVE StripLabels(_, _)
StripLabels(s, atLineStart) ==
    IF s = <<>> THEN <<>>
    ELSE LET k == FirstOutsideClass(s, 1)
         IN IF atLineStart /\ k <= Len(s) /\ s[k] = "MEDIA:"
              THEN LET after == SubSeq(s, k + 1, Len(s))
                       n == BlankRun(after)
                   IN StripLabels(SubSeq(after, n + 1, Len(after)),
                                  n > 0 /\ after[n] = "\n")
              ELSE <<Head(s)>> \o StripLabels(Tail(s), Head(s) = "\n")

\* replace(/\s+/g, " ")
RECURSIVE CollapseWhitespace(_)
CollapseWhitespace(s) ==
    IF s = <<>> THEN <<>>
    ELSE IF IsSpace(Head(s))
      THEN <<" ">> \o CollapseWhitespace(TrimStart(s))
      ELSE <<Head(s)>> \o CollapseWhitespace(Tail(s))

\* stripStructuralPrefixes   (part_005:30-36)
stripStructuralPrefixes(t) ==
    Trim(CollapseWhitespace(StripLabels(StripBracketed(t), TRUE)))

\* The symbols in lower case.
LowerOf(c) ==
    CASE c = "MEDIA:" -> "media:"
      [] c = "STOP" -> "stop"
      [] c = "Esc" -> "esc"
      [] OTHER -> c

\* String.prototype.toLowerCase, symbol by symbol.
ToLowerCase(t) == [i \in 1..Len(t) |-> LowerOf(t[i])]

\* normalize   (part_005:857-858)
normalize(t) == ToLowerCase(stripStructuralPrefixes(Trim(t)))

\* map(trim).filter(Boolean)
RECURSIVE TrimAll(_)
TrimAll(ts) ==
    IF ts = <<>> THEN <<>>
    ELSE (IF Trim(Head(ts)) = <<>> THEN <<>> ELSE <<Trim(Head(ts))>>) \o TrimAll(Tail(ts))

\* normalizeToolResults   (part_005:323-335)
RECURSIVE normalizeToolResults(_)
normalizeToolResults(trs) ==
    IF trs = <<>> THEN <<>>
    ELSE LET tr == Head(trs)
         IN (IF Trim(tr.text) = <<>> THEN <<>>
             ELSE << [text |-> Trim(tr.text), toolName |-> tr.toolName,
                      meta |-> tr.meta] >>)
              \o normalizeToolResults(Tail(trs))

\* Consecutive results of one tool, merged   (part_005:791-806)
RECURSIVE AggregateToolResults(_, _)
AggregateToolResults(trs, acc) ==
    IF trs = <<>> THEN acc
    ELSE LET tr == Head(trs)
             n == Len(acc)
             metas == IF tr.meta # NULL THEN <<tr.meta>> ELSE <<>>
         IN IF n > 0 /\ acc[n].toolName = tr.toolName
              THEN AggregateToolResults(Tail(trs),
                     [acc EXCEPT ![n].metas = @ \o metas,
                                 ![n].previews = Append(@, tr.text)])
              ELSE AggregateToolResults(Tail(trs),
                     Append(acc, [toolName |-> tr.toolName, metas |-> metas,
                                  previews |-> <<tr.text>>]))

Item(text, media) == [text |-> text, media |-> media]

\* A reply item of what splitMediaFromOutput gave.
ItemOf(r) == Item(r.text, r.mediaUrls)

\* The decorated line of an aggregate: emoji, header and metas, preview
\* (part_005:830-832)
Decorated(tr) ==
    <<"(tool)", " ">> \o formatToolAggregate(tr.toolName, tr.metas)
      \o <<" ", "-", " ">> \o Trim(Join(tr.previews, <<" ">>))

\* The reply items of the aggregated tool results   (part_005:829-839)
RECURSIVE InlineToolItems(_)
InlineToolItems(aggs) ==
    IF aggs = <<>> THEN <<>>
    ELSE <<ItemOf(splitMediaFromOutput(Decorated(Head(aggs))))>>
           \o InlineToolItems(Tail(aggs))

\* The reply items of the parsed assistant texts   (part_005:842-849)
RECURSIVE TextItems(_)
TextItems(ts) ==
    IF ts = <<>> THEN <<>>
    ELSE <<ItemOf(splitMediaFromOutput(Head(ts)))>> \o TextItems(Tail(ts))

\* The fallback notice   (part_005:881-886)
NoOutputNotice == <<"(command produced no output)">>

\* The media of a reply item after the mediaMaxMb filter (part_005:956-985);
\* `oversize` are the local files larger than the cap.
RECURSIVE UnderCap(_, _)
UnderCap(urls, oversize) ==
    IF urls = <<>> THEN <<>>
    ELSE (IF Head(urls) \in oversize THEN <<>> ELSE <<Head(urls)>>)
           \o UnderCap(Tail(urls), oversize)

\* The media of an item: its own, else the configured one, under the cap
\* (part_005:956-985)
ItemMedia(item, out) ==
    UnderCap(IF item.media # <<>> THEN item.media ELSE out.mediaUrlCfg,
             out.oversize)

\* The payload of an item, none if it has neither text nor media
\* (part_005:987-996)
PayloadOf(text, mediaUrls) ==
    IF text # <<>> \/ mediaUrls # <<>> THEN <<Payload(text, mediaUrls)>> ELSE <<>>

\* The payload loop   (part_005:952-997)
RECURSIVE BuildPayloads(_, _)
BuildPayloads(items, out) ==
    IF items = <<>> THEN <<>>
    ELSE PayloadOf(Head(items).text, ItemMedia(Head(items), out))
           \o BuildPayloads(Tail(items), out)

\* The first defined of the optional texts, else `last`.
FirstDefined(a, b, last) ==
    IF a # None THEN a[1] ELSE IF b # None THEN b[1] ELSE last

\* fallbackText with the loose match preferred to the RPC stream.
FallbackText_LooseFirst(out) ==
    FirstDefined(out.looseText, out.rpcAssistantText,
                 FirstDefined(out.rpcTextOfTrimmed, None, out.trimmed))

\* fallbackText   (part_005:852-856)
FallbackText(out) ==
    FirstDefined(out.rpcAssistantText, out.rpcTextOfTrimmed,
                 FirstDefined(out.looseText, None, out.trimmed))

\* promptEcho without the comparison of the normalized texts.
PromptEcho_ExactOnly(fallbackText, body) ==
    fallbackText # <<>> /\ fallbackText = body

\* promptEcho   (part_005:859-867)
PromptEcho(fallbackText, body) ==
    fallbackText # <<>>
      /\ (fallbackText = body
            \/ (normalize(body) # <<>> /\ normalize(body) = normalize(fallbackText)))

\* safeFallbackText   (part_005:868)
SafeFallbackText(fallbackText, body) ==
    IF PromptEcho(fallbackText, body) THEN <<>> ELSE fallbackText

\* The item of the fallback text, `fb` being its split   (part_005:873-878)
FallbackItems(fb) ==
    IF fb.text # <<>> \/ fb.mediaUrls # <<>> THEN <<ItemOf(fb)>> ELSE <<>>

\* The items of the parsed output   (part_005:787-849)
ParsedItems(parsedTexts, parsedToolResults, includeToolResultsInline) ==
    (IF includeToolResultsInline
       THEN InlineToolItems(AggregateToolResults(parsedToolResults, <<>>))
       ELSE <<>>)
      \o TextItems(parsedTexts)

\* if (replyItems.length === 0 && safeFallbackText && !hasParsedContent)
\* (part_005:870-879)
WithFallback(replyItems, safeFallbackText, hasParsedContent) ==
    IF replyItems = <<>> /\ safeFallbackText # <<>> /\ ~hasParsedContent
      THEN FallbackItems(splitMediaFromOutput(safeFallbackText))
      ELSE replyItems

\* if (replyItems.length === 0): the fallback notice   (part_005:881-889)
WithNotice(replyItems) ==
    IF replyItems = <<>> THEN <<Item(NoOutputNotice, <<>>)>> ELSE replyItems

ItemsOfParsed(out, parsedTexts, parsedToolResults) ==
    WithNotice(WithFallback(
        ParsedItems(parsedTexts, parsedToolResults,
                    out.verboseOn /\ ~onPartialReply /\ parsedToolResults # <<>>),
        SafeFallbackText(FallbackText(out), out.body),
        parsedTexts # <<>> \/ parsedToolResults # <<>>))

\* The reply items built from the output   (part_005:775-889)
ReplyItems(out) ==
    ItemsOfParsed(out, TrimAll(out.parsedTexts),
                  normalizeToolResults(out.parsedToolResults))

Returned(payloads, out, threw) ==
    [payloads |-> payloads, exitCode |-> out.code, signal |-> out.signal,
     killed |-> out.killed, threw |-> threw]

\* The number of characters of output an exit report carries (part_005:908)
SummaryLimit == 500

\* The whole of s, however long.
Clipped_Whole(s, n) == s

\* s.slice(0, n), with "..." after it when s is longer   (part_005:908)
Clipped(s, n) ==
    IF Len(s) > n THEN SubSeq(s, 1, n) \o <<"...">> ELSE s

\* The text of the exit report   (part_005:906-910)
ExitErrorText(code, signal, summarySource) ==
    <<"Command exited with code", " ", ToString(code)>>
      \o (IF signal # NULL THEN <<" ", "(", signal, ")">> ELSE <<>>)
      \o (IF summarySource # <<>>
            THEN <<"\n", "\n", "Output:", " ">> \o Clipped(summarySource, SummaryLimit)
            ELSE <<>>)

\* What runCommandReply returns once the runner has returned `out`
\* (part_005:900-1000); `streamed` is streamedAny after the final flush.
Reply(out, streamed) ==
    IF out.code # None /\ out.code # Some(0)
      THEN Returned(
             << Payload(ExitErrorText(out.code[1], out.signal,
                          FirstDefined(out.rpcAssistantText, None, out.trimmed)),
                        <<>>) >>, out, FALSE)
    ELSE IF out.killed /\ out.signal = NULL
      THEN Returned(<< Payload(<<"Command was killed before completion">>, <<>>) >>,
                    out, FALSE)
    ELSE Returned(IF streamed /\ onPartialReply
                    THEN <<>> ELSE BuildPayloads(ReplyItems(out), out),
                  out, FALSE)

\* a || b || last, on optional texts: an empty text counts as absent.
FirstTruthy(a, b, last) ==
    IF a # None /\ a # Some(<<>>) THEN a[1]
    ELSE IF b # None /\ b # Some(<<>>) THEN b[1] ELSE last

\* The text of the timeout report   (part_005:1017-1030)
TimeoutText(partial) ==
    <<"Command timed out">>
      \o (IF partial # <<>>
            THEN <<"\n", "\n", "Partial output before timeout:", "\n">> \o partial
            ELSE <<>>)

\* What runCommandReply returns when enqueue(run) throws `err`
\* (part_005:1001-1058).
ReplyOnThrow(err) ==
    [payloads |-> << Payload(IF err.killed \/ err.signal = "SIGKILL"
                               THEN TimeoutText(FirstTruthy(err.rpcAssistantText,
                                                            err.looseText, err.trimmed))
                               ELSE <<"Command failed">>,
                             <<>>) >>,
     exitCode |-> None, signal |-> err.signal, killed |-> err.killed,
     threw |-> TRUE]

\* What the runner can hand back: the RunResult, what agent.parseOutput and
\* the text extractors find in its stdout, and the configuration read while
\* the payloads are built.
BaseOut ==
    [code |-> Some(0), signal |-> NULL, killed |-> FALSE,
     parsedTexts |-> <<>>, parsedToolResults |-> <<>>,
     rpcAssistantText |-> None, rpcTextOfTrimmed |-> None,
     looseText |-> None, trimmed |-> <<>>,
     body |-> <<"a">>, verboseOn |-> FALSE, mediaUrlCfg |-> <<>>, oversize |-> {}]

RunOutputs ==
    { \* an assistant text
      [BaseOut EXCEPT !.parsedTexts = << <<"done">> >>,
                      !.rpcAssistantText = Some(<<"done">>), !.trimmed = <<"done">>],
      \* nothing at all
      BaseOut,
      \* an assistant text that is an invalid MEDIA token only
      [BaseOut EXCEPT !.parsedTexts = << <<"MEDIA:", " ", "a">> >>,
                      !.rpcAssistantText = Some(<<"MEDIA:", " ", "a">>),
                      !.trimmed = <<"MEDIA:", " ", "a">>],
      \* a media file over the mediaMaxMb cap
      [BaseOut EXCEPT !.parsedTexts = << <<"MEDIA:", "/p">> >>,
                      !.rpcAssistantText = Some(<<"MEDIA:", "/p">>),
                      !.trimmed = <<"MEDIA:", "/p">>, !.oversize = {<<"/p">>}],
      \* a text with a media file, and tool results reported inline
      [BaseOut EXCEPT !.parsedTexts = << <<"b", " ", "MEDIA:", "/p">> >>,
                      !.parsedToolResults =
                          << [text |-> <<"b">>, toolName |-> "A", meta |-> "mA"] >>,
                      !.verboseOn = TRUE, !.trimmed = <<"b">>],
      \* a non-zero exit
      [BaseOut EXCEPT !.code = Some(1), !.rpcAssistantText = Some(<<"b">>),
                      !.trimmed = <<"b">>],
      \* killed with no signal reported
      [BaseOut EXCEPT !.code = None, !.killed = TRUE],
      \* output that is the prompt, echoed
      [BaseOut EXCEPT !.looseText = Some(<<"MEDIA:", " ", "a">>),
                      !.trimmed = <<"MEDIA:", " ", "a">>],
      \* unstructured output
      [BaseOut EXCEPT !.trimmed = <<"b">>] }

\* The end of a run whose stream is what matters: exit 0 with the last text.
StreamOutputs ==
    { [BaseOut EXCEPT !.parsedTexts = << <<"done">> >>,
                      !.rpcAssistantText = Some(<<"done">>), !.trimmed = <<"done">>] }

StreamErrors ==
    { [killed |-> FALSE, signal |-> NULL, rpcAssistantText |-> None,
       looseText |-> None, trimmed |-> <<>>] }

RunErrors ==
    { [killed |-> TRUE, signal |-> "SIGKILL", rpcAssistantText |-> Some(<<"a">>),
       looseText |-> None, trimmed |-> <<>>],
      [killed |-> FALSE, signal |-> NULL, rpcAssistantText |-> None,
       looseText |-> None, trimmed |-> <<>>] }

----------------------------------------------------------------------------
(* One invocation of runCommandReply.                                      *)

\* A line of stdout reaches onEvent (at most `maxEvents` lines are explored).
Event(ev, maxEvents) ==
    /\ pc = "running"
    /\ nEvents < maxEvents
    /\ nEvents' = nEvents + 1
    /\ \E st \in {onEvent(Reducer, ev, nEvents + 1)} : SetReducer(st)
    /\ toolLog' = IF HasMessage(ev) /\ ev.type \in {"message", "message_end"}
                       /\ IsToolResult(ev) /\ ev.isArray
                    THEN Append(toolLog, ToolMark(ev)) ELSE toolLog
    /\ UNCHANGED <<pc, onPartialReply, returned>>

\* The debounce timer `id` expires: the event loop runs flushPendingTool.
TimerFires(id) ==
    /\ id \in timers
    /\ \E st \in {flushPendingTool([Reducer EXCEPT !.timers = @ \ {id}])} :
          /\ SetReducer(st)
          /\ toolLog' = IF Len(st.delivered) > Len(delivered)
                          THEN Append(toolLog, "expiry") ELSE toolLog
    /\ UNCHANGED <<pc, onPartialReply, nEvents, returned>>

\* runPiRpc returns: the final flush (part_005:730), then the reply is built
\* and returned.
RunnerReturns(out) ==
    /\ pc = "running"
    /\ \E st \in {flushPendingTool(Reducer)} :
          /\ SetReducer(st)
          /\ returned' = Some(Reply(out, st.streamedAny)
                               @@ [items |-> ReplyItems(out)])
    /\ pc' = "done"
    /\ UNCHANGED <<onPartialReply, nEvents, toolLog>>

\* runPiRpc (or the queue) throws: the catch block returns an error payload.
RunnerThrows(err) ==
    /\ pc = "running"
    /\ returned' = Some(ReplyOnThrow(err))
    /\ pc' = "done"
    /\ UNCHANGED <<onPartialReply, pendingToolName, pendingMetas, pendingTimer,
                   timers, streamedAny, lastStreamedAssistant, delivered,
                   nEvents, toolLog>>

RunInitVars ==
    /\ pc = "running"
    /\ onPartialReply \in BOOLEAN
    /\ pendingToolName = NULL
    /\ pendingMetas = <<>>
    /\ pendingTimer = None
    /\ timers = {}
    /\ streamedAny = FALSE
    /\ lastStreamedAssistant = None
    /\ delivered = <<>>
    /\ nEvents = 0
    /\ toolLog = <<>>
    /\ returned = None

Init == RunInitVars /\ QueueInitVars /\ FnIdleVars /\ AbortIdleVars /\ CronIdleVars /\ ExtIdleVars

\* A run with every kind of output and a short stream.
Next ==
    \/ \E ev \in Events : Event(ev, MaxReplyEvents) /\ UNCHANGED <<queueVars, fnVars, abortVars, cronVars, extVars>>
    \/ \E id \in timers : TimerFires(id) /\ UNCHANGED <<queueVars, fnVars, abortVars, cronVars, extVars>>
    \/ \E out \in RunOutputs : RunnerReturns(out) /\ UNCHANGED <<queueVars, fnVars, abortVars, cronVars, extVars>>
    \/ \E err \in RunErrors : RunnerThrows(err) /\ UNCHANGED <<queueVars, fnVars, abortVars, cronVars, extVars>>

Spec == Init /\ [][Next]_vars

\* A run with a long stream and a plain end.
StreamNext ==
    \/ \E ev \in StreamEvents : Event(ev, MaxEvents) /\ UNCHANGED <<queueVars, fnVars, abortVars, cronVars, extVars>>
    \/ \E id \in timers : TimerFires(id) /\ UNCHANGED <<queueVars, fnVars, abortVars, cronVars, extVars>>
    \/ \E out \in StreamOutputs : RunnerReturns(out) /\ UNCHANGED <<queueVars, fnVars, abortVars, cronVars, extVars>>
    \/ \E err \in StreamErrors : RunnerThrows(err) /\ UNCHANGED <<queueVars, fnVars, abortVars, cronVars, extVars>>

StreamSpec == Init /\ [][StreamNext]_vars

----------------------------------------------------------------------------
(* Claims about the command queue.                                         *)

Range(s) == {s[i] : i \in 1..Len(s)}

IsPrefix(s, t) == Len(s) <= Len(t) /\ SubSeq(t, 1, Len(s)) = s

Waited(j) == j \notin startedDirect

\* C1: the number of jobs that have started and not completed never exceeds
\* the concurrency limit, and a job enqueued while the limit is reached is
\* put in the queue instead of starting.
C1_ConcurrencyBound ==
    /\ [](Cardinality(Running) <= ConcurrencyLimit)
    /\ [][\A j \in Jobs :
            (jobState[j] = "idle" /\ jobState'[j] # "idle"
               /\ Cardinality(Running) >= ConcurrencyLimit)
            => jobState'[j] = "queued"]_vars

\* C1 witness: the limit is reached and a job submitted since then waits.
C1_Witness ==
    Cardinality(Running) = ConcurrencyLimit /\ queue # <<>>

\* C2: jobs enter execution in the order of their enqueue calls (the
\* admission history is a prefix of the enqueue history), and every queued
\* job is eventually admitted whatever the outcomes of the jobs before it.
C2_FifoAdmission ==
    /\ [](IsPrefix(admitted, enqOrder))
    /\ \A j \in Jobs : (jobState[j] = "queued") ~> (jobState[j] \in {"running", "done"})

\* C2 witness: a job failed while an earlier job still runs, and a job that
\* had been queued behind both has been admitted.
C2_Witness ==
    \E a, b, c \in Jobs :
        /\ a < b /\ b < c
        /\ jobState[a] = "running"
        /\ jobResult[b] \in {Some("throw"), Some("nonzero")}
        /\ Waited(c) /\ jobState[c] = "running"

\* C3: onWait fires at most once per job, while the job is still waiting
\* (before it starts), and only for a job that did not start inside its
\* enqueue call; queuedMs and queuedAhead are set only for such jobs.
C3_OnWaitOnce ==
    /\ [](\A j \in Jobs :
            /\ onWaitCalls[j] <= 1
            /\ onWaitCalls[j] = 1 => Waited(j) /\ j \in Range(admitted)
            /\ (queuedMs[j] # None \/ queuedAhead[j] # None)
                 => Waited(j) /\ onWaitCalls[j] = 1)
    /\ [][\A j \in Jobs :
            onWaitCalls'[j] > onWaitCalls[j] => jobState[j] = "queued"]_vars

\* C3 witness: one job waited and got its onWait, another started at once
\* and has no queue metadata.
C3_Witness ==
    \E j, k \in Jobs :
        /\ Waited(j) /\ onWaitCalls[j] = 1 /\ queuedMs[j] # None
        /\ k \in startedDirect /\ onWaitCalls[k] = 0 /\ queuedMs[k] = None

----------------------------------------------------------------------------
(* Claims about one run of runCommandReply.                                *)

MetaSyms == {"mA", "mB", "mU"}

IsMeta(c) == c \in MetaSyms

\* A payload emitted by flushPendingTool, and the metas it reports.
IsToolPayload(p) == p.text # <<>> /\ p.text[1] \in ToolHeaders

MetasOf(p) == SelectSeq(p.text, IsMeta)

ToolPayloads(log) == SelectSeq(log, IsToolPayload)

IsTextPayload(p) == ~IsToolPayload(p)

TextPayloads(log) == SelectSeq(log, IsTextPayload)

RECURSIVE CountMetas(_)
CountMetas(log) ==
    IF log = <<>> THEN 0 ELSE Len(MetasOf(Head(log))) + CountMetas(Tail(log))

\* The history entries of the tool results.
ToolMarks == {"A+", "A-", "B+", "U+", "U-"}

MarkName(mark) ==
    CASE mark \in {"A+", "A-"} -> "A"
      [] mark = "B+" -> "B"
      [] OTHER -> NULL

MarkMetas(mark) ==
    CASE mark = "A+" -> <<"mA">>
      [] mark = "B+" -> <<"mB">>
      [] mark = "U+" -> <<"mU">>
      [] OTHER -> <<>>

HasMeta(mark) == MarkMetas(mark) # <<>>

\* The step is a debounce timer expiring.
TimerExpires == timers' # timers /\ timers' \subseteq timers
                  /\ nEvents' = nEvents /\ pc' = pc

\* The step is onEvent consuming the tool result `mark`.
ToolResultArrives(mark) == toolLog' = Append(toolLog, mark)

AggregateEmpty == pendingToolName = NULL /\ pendingMetas = <<>>

\* The run is over and its final flush (part_005:730) was executed.
Completed == pc = "done" /\ ~returned[1].threw

\* C4: every completed invocation delivers something: at least one payload
\* went through the partial-reply callback, or the returned payload list is
\* not empty.
C4_NonEmptyStream ==
    pc = "done" => (Len(delivered) > 0 \/ Len(returned[1].payloads) > 0)

\* C5: payloads are delivered in the order their events arrived: an
\* assistant text is never delivered while tool results that arrived before
\* it are still held back in the pending aggregate.
C5_ArrivalOrder ==
    [][(Len(delivered') > Len(delivered)
          /\ IsTextPayload(delivered'[Len(delivered')]))
        => AggregateEmpty]_vars

\* C6 as stated: on every tool result whose tool name differs from the
\* pending aggregate's, the aggregate is flushed (one payload emitted,
\* aggregate cleared) before the new meta is recorded, whether or not a
\* partial-reply callback was supplied.
C6_AsStated ==
    [][\A mark \in ToolMarks :
         (ToolResultArrives(mark)
            /\ MarkName(mark) # NULL /\ pendingToolName # NULL
            /\ MarkName(mark) # pendingToolName)
         => /\ delivered' = Append(delivered,
                  Payload(formatToolAggregate(pendingToolName, pendingMetas), <<>>))
            /\ pendingToolName' = MarkName(mark)
            /\ pendingMetas' = MarkMetas(mark)]_vars

\* C6 amended: with a partial-reply callback, on every tool result that
\* carries a tool name different from the name of the pending aggregate the
\* aggregate is flushed (one payload with exactly the pending metas) before
\* the new meta is recorded; no emitted aggregate holds metas of results
\* carrying two different tool names; and the results A, A, B, B with no
\* expiry in between give exactly two flushes, A's metas then B's.
C6_FlushOnToolChange ==
    /\ [][\A mark \in ToolMarks :
            (onPartialReply /\ ToolResultArrives(mark)
               /\ MarkName(mark) # NULL /\ pendingToolName # NULL
               /\ MarkName(mark) # pendingToolName)
            => /\ delivered' = Append(delivered,
                     Payload(formatToolAggregate(pendingToolName, pendingMetas), <<>>))
               /\ pendingToolName' = MarkName(mark)
               /\ pendingMetas' = MarkMetas(mark)]_vars
    /\ [](\A i \in 1..Len(delivered) :
            ~({"mA", "mB"} \subseteq Range(MetasOf(delivered[i]))))
    /\ []((onPartialReply /\ Completed
             /\ toolLog \in { <<"A+", "A+", "B+", "B+">>,
                              <<"A+", "A+", "B+", "B+", "expiry">> })
           => ToolPayloads(delivered)
                = << Payload(formatToolAggregate("A", <<"mA", "mA">>), <<>>),
                     Payload(formatToolAggregate("B", <<"mB", "mB">>), <<>>) >>)

\* C6 witness: the results A, A, B, B were reduced to two payloads.
C6_Witness ==
    /\ onPartialReply /\ Completed
    /\ toolLog = <<"A+", "A+", "B+", "B+">>
    /\ Len(ToolPayloads(delivered)) = 2

\* C7 as stated: when the debounce timer expires the pending aggregate is
\* flushed exactly once: one payload is emitted and the aggregate is empty
\* afterwards.
C7_AsStated ==
    [][TimerExpires
        => /\ pendingMetas' = <<>> /\ pendingToolName' = NULL
           /\ (~AggregateEmpty => Len(delivered') = Len(delivered) + 1)]_vars

\* C7 amended: with a partial-reply callback, the expiry of the debounce
\* timer on a non-empty aggregate emits exactly one payload, which holds
\* exactly the pending metas, and leaves the aggregate empty; no meta is
\* emitted twice or lost (the metas delivered and the metas pending are the
\* metas recorded); and after the final flush nothing is left pending.
C7_DebounceOnce ==
    /\ [][(onPartialReply /\ TimerExpires /\ ~AggregateEmpty)
            => /\ delivered' = Append(delivered,
                     Payload(formatToolAggregate(pendingToolName, pendingMetas), <<>>))
               /\ pendingMetas' = <<>> /\ pendingToolName' = NULL]_vars
    /\ [](onPartialReply =>
            CountMetas(delivered) + Len(pendingMetas)
              = Len(SelectSeq(toolLog, HasMeta)))
    /\ []((onPartialReply /\ Completed) => AggregateEmpty)

\* C7 witness: a burst of two results was flushed by the timer, and the run
\* ended without a second payload.
C7_Witness ==
    /\ onPartialReply /\ Completed
    /\ toolLog = <<"A+", "A+", "expiry">>
    /\ ToolPayloads(delivered)
         = << Payload(formatToolAggregate("A", <<"mA", "mA">>), <<>>) >>

\* C8 as stated: the pending metas never exceed the flush count, and the
\* tool result that brings them to the flush count flushes the aggregate on
\* that same event.
C8_AsStated ==
    /\ [](Len(pendingMetas) <= TOOL_RESULT_FLUSH_COUNT)
    /\ [][\A mark \in ToolMarks :
            (ToolResultArrives(mark)
               /\ Len(pendingMetas') >= TOOL_RESULT_FLUSH_COUNT) => FALSE]_vars

\* C8 amended: with a partial-reply callback, the tool result that brings
\* the pending metas to the flush count flushes the aggregate on that same
\* event (one payload with these metas, aggregate empty, no timer armed), so
\* fewer than the flush count of metas are pending after every event.
C8_CountThreshold ==
    /\ [](onPartialReply => Len(pendingMetas) < TOOL_RESULT_FLUSH_COUNT)
    /\ [][\A mark \in ToolMarks :
            (onPartialReply /\ ToolResultArrives(mark) /\ HasMeta(mark)
               /\ Len(pendingMetas) = TOOL_RESULT_FLUSH_COUNT - 1
               /\ ~(pendingToolName # NULL /\ MarkName(mark) # NULL
                      /\ MarkName(mark) # pendingToolName))
            => /\ delivered' = Append(delivered,
                     Payload(formatToolAggregate(
                                 IF pendingToolName # NULL THEN pendingToolName
                                 ELSE MarkName(mark),
                                 pendingMetas \o MarkMetas(mark)), <<>>))
               /\ pendingMetas' = <<>> /\ pendingToolName' = NULL
               /\ timers' = {} /\ pendingTimer' = None]_vars

\* C8 witness: an aggregate of the flush count of metas was emitted while
\* the stream was still running.
C8_Witness ==
    /\ onPartialReply /\ pc = "running"
    /\ \E i \in 1..Len(delivered) :
         Len(MetasOf(delivered[i])) = TOOL_RESULT_FLUSH_COUNT
    /\ ~("expiry" \in Range(toolLog))

\* C9: at most one debounce timer is armed at any time, and once the run
\* has completed (runner returned, final flush executed) none is armed.
C9_TimerLifecycle ==
    /\ Cardinality(timers) <= 1
    /\ Completed => timers = {}

\* C10: an assistant text is delivered only when the combined, trimmed text
\* differs from the last one streamed: a step delivers at most one payload,
\* a delivered text payload is the split of a text that was not the last
\* streamed one, and no assistant text is delivered twice in a row.
C10_AssistantDedup ==
    /\ [][Len(delivered') <= Len(delivered) + 1]_vars
    /\ [][(Len(delivered') > Len(delivered)
             /\ IsTextPayload(delivered'[Len(delivered')]))
            => /\ lastStreamedAssistant' # lastStreamedAssistant
               /\ lastStreamedAssistant' # None
               /\ LET r == splitMediaFromOutput(lastStreamedAssistant'[1])
                  IN delivered'[Len(delivered')] = Payload(r.text, r.mediaUrls)]_vars
    /\ [](\A i \in 1..(Len(TextPayloads(delivered)) - 1) :
            TextPayloads(delivered)[i] # TextPayloads(delivered)[i + 1])

\* C10 witness: one message_end with the text "done" went through
\* streamAssistantFinal three times and one payload was delivered.
C10_Witness ==
    /\ onPartialReply /\ nEvents = 1
    /\ lastStreamedAssistant = Some(<<"done">>)
    /\ delivered = << Payload(<<"done">>, <<>>) >>

----------------------------------------------------------------------------
(* Claims about the payloads and the reply built after the run.            *)

HasContent(p) == p.text # <<>> \/ p.mediaUrls # <<>>

\* C11: every payload emitted, through the partial-reply callback or in the
\* returned list, has a non-empty text or at least one media reference.
C11_PayloadHasContent ==
    /\ \A i \in 1..Len(delivered) : HasContent(delivered[i])
    /\ returned # None =>
         \A i \in 1..Len(returned[1].payloads) : HasContent(returned[1].payloads[i])

----------------------------------------------------------------------------
(* The stdout of the runner, line by line, and what runCommandReply reads  *)
(* in it (part_005:38-149, 745-753).  A line that is JSON has the fields   *)
(* of the event; `texts` are the texts of its text content blocks and, for *)
(* a line that is not JSON, the values of its "text":"..." occurrences;    *)
(* `raw` is the line itself as a text.                                     *)

Line(json, type, role, isArray, texts, hasUsage, evtType, chunk, raw) ==
    [json |-> json, type |-> type, role |-> role, isArray |-> isArray,
     texts |-> texts, hasUsage |-> hasUsage, evtType |-> evtType,
     chunk |-> chunk, raw |-> raw]

\* message_end of the assistant with an array content   (part_005:101-105)
IsAssistantEnd(l) ==
    l.json /\ l.type = "message_end" /\ l.role = "assistant" /\ l.isArray

\* The text blocks of the message, joined and trimmed   (part_005:106-110)
EndText(l) == Trim(Join(l.texts, <<"\n">>))

\* message_update with a text event   (part_005:116-123)
IsTextEvent(l) ==
    l.json /\ l.type = "message_update"
      /\ l.evtType \in {"text_delta", "text_end", "text_start"}

\* The loop of extractRpcAssistantText   (part_005:86-139)
RECURSIVE ExtractRpcFrom(_, _, _)
ExtractRpcFrom(lines, deltaBuffer, lastAssistant) ==
    IF lines = <<>> THEN lastAssistant
    ELSE IF IsAssistantEnd(Head(lines)) /\ EndText(Head(lines)) # <<>>
      THEN ExtractRpcFrom(Tail(lines), <<>>, Some(EndText(Head(lines))))
    ELSE IF IsTextEvent(Head(lines)) /\ Head(lines).chunk # <<>>
      THEN ExtractRpcFrom(Tail(lines), deltaBuffer \o Head(lines).chunk,
                          Some(deltaBuffer \o Head(lines).chunk))
    ELSE ExtractRpcFrom(Tail(lines), deltaBuffer, lastAssistant)

\* lastAssistant?.trim() || undefined   (part_005:140)
TrimOrUndefined(t) ==
    IF t = None THEN None
    ELSE IF Trim(t[1]) = <<>> THEN None ELSE Some(Trim(t[1]))

\* extractRpcAssistantText   (part_005:84-141)
extractRpcAssistantText(lines) ==
    IF lines = <<>> THEN None
    ELSE TrimOrUndefined(ExtractRpcFrom(lines, <<>>, None))

\* role.toLowerCase().includes("tool")
IsToolRole(role) == role \in {"toolResult", "tool_result", "tool"}

\* A line stripRpcNoise drops   (part_005:43-76)
IsRpcNoise(l) ==
    l.json
      /\ \/ l.type \in {"message_start", "message_update",
                        "input_audio_buffer.append"}
         \/ ~(l.role = "assistant" \/ IsToolRole(l.role))
         \/ (l.role = "assistant" /\ l.isArray
               /\ l.texts = <<>> /\ ~l.hasUsage)

IsKept(l) == ~IsRpcNoise(l)

\* stripRpcNoise, as the lines kept   (part_005:38-82)
stripRpcNoise(lines) == SelectSeq(lines, IsKept)

RECURSIVE RawTexts(_)
RawTexts(lines) ==
    IF lines = <<>> THEN <<>> ELSE <<Head(lines).raw>> \o RawTexts(Tail(lines))

\* kept.join("\n")
RawText(lines) == Join(RawTexts(lines), <<"\n">>)

\* A text as written inside a JSON string: the line break is escaped.
Escape(t) == [i \in 1..Len(t) |-> IF t[i] = "\n" THEN "\\n" ELSE t[i]]

\* replace(/\\n/g, "\n")   (part_005:148)
Unescape(t) == [i \in 1..Len(t) |-> IF t[i] = "\\n" THEN "\n" ELSE t[i]]

RECURSIVE EscapeAll(_)
EscapeAll(ts) ==
    IF ts = <<>> THEN <<>> ELSE <<Escape(Head(ts))>> \o EscapeAll(Tail(ts))

\* The matches of /"text"\s*:\s*"([^"]+?)"/g in the lines   (part_005:145)
RECURSIVE TextMatches(_)
TextMatches(lines) ==
    IF lines = <<>> THEN <<>>
    ELSE NonEmpty(EscapeAll(Head(lines).texts)) \o TextMatches(Tail(lines))

LastMatch(matches) ==
    IF matches = <<>> THEN None
    ELSE Some(Trim(Unescape(matches[Len(matches)])))

\* extractAssistantTextLoosely   (part_005:143-149)
extractAssistantTextLoosely(lines) == LastMatch(TextMatches(lines))

----------------------------------------------------------------------------
(* runCommandReply as a function of what the runner handed back: the       *)
(* RunResult or the error thrown, what agent.parseOutput found, the prompt *)
(* body.                                                                   *)

\* The longest stdout explored, in lines.
MaxLines == 2

\* A text one character longer than an exit report carries.
LongText == [i \in 1..(SummaryLimit + 1) |-> "x"]

\* A text delta of the assistant: "a".
TextDelta ==
    Line(TRUE, "message_update", "assistant", FALSE, <<>>, FALSE,
         "text_delta", <<"a">>, <<"{text_delta a}">>)

StdoutLines ==
    { \* the assistant's message_end, with the text "done"
      Line(TRUE, "message_end", "assistant", TRUE, << <<"done">> >>, FALSE,
           NULL, <<>>, <<"{message_end done}">>),
      TextDelta,
      \* a text delta that is a blank
      Line(TRUE, "message_update", "assistant", FALSE, <<>>, FALSE,
           "text_delta", <<" ">>, <<"{text_delta  }">>),
      \* a tool result with the text "b"
      Line(TRUE, "message_end", "toolResult", TRUE, << <<"b">> >>, FALSE,
           NULL, <<>>, <<"{toolResult b}">>),
      \* a line that is not JSON
      Line(FALSE, NULL, NULL, FALSE, <<>>, FALSE, NULL, <<>>, <<"b">>),
      \* a line that is not JSON and holds "text":"a"
      Line(FALSE, NULL, NULL, FALSE, << <<"a">> >>, FALSE, NULL, <<>>,
           <<"{text a">>),
      \* a line that is not JSON: a bracketed group and nothing else
      Line(FALSE, NULL, NULL, FALSE, <<>>, FALSE, NULL, <<>>, <<"[B]">>),
      \* an event of the agent, with no message
      Line(TRUE, "agent_start", NULL, FALSE, <<>>, FALSE, NULL, <<>>,
           <<"{agent_start}">>) }

\* A long line that is not JSON.
LongLine == Line(FALSE, NULL, NULL, FALSE, <<>>, FALSE, NULL, <<>>, LongText)

Stdouts(maxLines) ==
    UNION { [1..n -> StdoutLines] : n \in 0..maxLines }

\* What agent.parseOutput finds in the noise-stripped output.
Parses ==
    { [texts |-> <<>>, toolResults |-> <<>>],
      [texts |-> << <<"done">> >>, toolResults |-> <<>>],
      [texts |-> <<>>,
       toolResults |-> << [text |-> <<"b">>, toolName |-> "A", meta |-> "mA"] >>] }

\* How the runner ends: it returns a RunResult or throws.
Exits ==
    { [thrown |-> FALSE, code |-> Some(0), signal |-> NULL, killed |-> FALSE],
      [thrown |-> FALSE, code |-> Some(1), signal |-> NULL, killed |-> FALSE],
      [thrown |-> FALSE, code |-> Some(1), signal |-> "SIGTERM", killed |-> TRUE],
      [thrown |-> FALSE, code |-> None, signal |-> "SIGKILL", killed |-> TRUE],
      [thrown |-> FALSE, code |-> None, signal |-> NULL, killed |-> TRUE],
      [thrown |-> TRUE, code |-> None, signal |-> "SIGKILL", killed |-> TRUE],
      [thrown |-> TRUE, code |-> None, signal |-> NULL, killed |-> FALSE] }

Bodies == { <<"a">>, <<"[A]", " ", "done">>, <<"b">>, <<"[A]">> }

\* The runs explored; the long line is explored with the exits whose report
\* clips the output.
Runs(maxLines) ==
    { [stdout |-> so, parse |-> pa, exit |-> ex, body |-> bo, streamed |-> st] :
        so \in Stdouts(maxLines), pa \in Parses, ex \in Exits, bo \in Bodies,
        st \in BOOLEAN }
      \cup
    { [stdout |-> <<LongLine>>, parse |-> pa, exit |-> ex, body |-> <<"a">>,
       streamed |-> FALSE] :
        pa \in Parses,
        ex \in { e \in Exits : ~e.thrown /\ e.code \notin {None, Some(0)} } }

\* What runCommandReply reads in the RunResult   (part_005:745-780)
OutOf(run) ==
    [code |-> run.exit.code, signal |-> run.exit.signal, killed |-> run.exit.killed,
     parsedTexts |-> IF stripRpcNoise(run.stdout) = <<>> THEN <<>>
                     ELSE run.parse.texts,
     parsedToolResults |-> IF stripRpcNoise(run.stdout) = <<>> THEN <<>>
                           ELSE run.parse.toolResults,
     rpcAssistantText |-> extractRpcAssistantText(run.stdout),
     rpcTextOfTrimmed |-> extractRpcAssistantText(stripRpcNoise(run.stdout)),
     looseText |-> extractAssistantTextLoosely(stripRpcNoise(run.stdout)),
     trimmed |-> RawText(stripRpcNoise(run.stdout)),
     body |-> run.body, verboseOn |-> FALSE, mediaUrlCfg |-> <<>>, oversize |-> {}]

\* What the catch block reads in the error   (part_005:1007-1023)
ErrOf(run) ==
    [killed |-> run.exit.killed, signal |-> run.exit.signal,
     rpcAssistantText |-> extractRpcAssistantText(run.stdout),
     looseText |-> extractAssistantTextLoosely(run.stdout),
     trimmed |-> RawText(stripRpcNoise(run.stdout))]

\* runCommandReply, from the end of the runner on   (part_005:745-1058)
RunReply(run) ==
    IF run.exit.thrown THEN ReplyOnThrow(ErrOf(run))
    ELSE Reply(OutOf(run), run.streamed)

\* The reply is built: what is returned, with the fallback text computed on
\* the way.
BuildReply ==
    /\ input # None
    /\ output = None
    /\ output' = Some([reply |-> RunReply(input[1]),
                       fallbackText |-> FallbackText(OutOf(input[1]))])
    /\ UNCHANGED <<input, queueVars, runVars, abortVars, cronVars, extVars>>

ReplyInit ==
    /\ RunInitVars /\ QueueInitVars /\ AbortIdleVars /\ CronIdleVars /\ ExtIdleVars
    /\ input \in { Some(r) : r \in Runs(MaxLines) }
    /\ output = None

ReplyNext == BuildReply

ReplySpec == ReplyInit /\ [][ReplyNext]_vars

----------------------------------------------------------------------------
(* The argv handed to the runner (part_005:576-593).  Positions are        *)
(* counted from 1; 0 stands for the -1 of indexOf.                         *)

\* The longest configured argv explored, the prompt not counted.
MaxArgs == 3

ArgWords == {"--mode", "json", "rpc", "pi", "--session", "/s"}

\* finalArgv: the configured arguments `a` with the prompt after the k-th.
WithPrompt(a, k) ==
    [finalArgv |-> SubSeq(a, 1, k) \o <<"<prompt>">> \o SubSeq(a, k + 1, Len(a)),
     rpcPromptIndex |-> k + 1]

FinalArgvs(maxArgs) ==
    UNION { { WithPrompt(a, k) : k \in 0..Len(a) } :
              a \in UNION { [1..n -> ArgWords] : n \in 0..maxArgs } }

\* copy.indexOf(x)
RECURSIVE IndexFrom(_, _, _)
IndexFrom(s, x, i) ==
    IF i > Len(s) THEN 0 ELSE IF s[i] = x THEN i ELSE IndexFrom(s, x, i + 1)

\* copy.splice(copy.length - 1, 0, a, b): a and b go before the last element.
InsertBeforeLast(copy, a, b) ==
    IF copy = <<>> THEN <<a, b>>
    ELSE SubSeq(copy, 1, Len(copy) - 1) \o <<a, b>> \o <<copy[Len(copy)]>>

\* The mode forced on the argv without the prompt   (part_005:586-591)
ForceMode(copy, modeIdx) ==
    IF modeIdx > 0 /\ modeIdx + 1 <= Len(copy)
      THEN [copy EXCEPT ![modeIdx + 1] = "rpc"]
    ELSE IF modeIdx = 0 THEN InsertBeforeLast(copy, "--mode", "rpc")
    ELSE copy

\* copy.splice(rpcPromptIndex, 1)
WithoutPrompt(argv, rpcPromptIndex) ==
    SubSeq(argv, 1, rpcPromptIndex - 1) \o SubSeq(argv, rpcPromptIndex + 1, Len(argv))

\* rpcArgvForRun   (part_005:583-593)
rpcArgvForRun(finalArgv, rpcPromptIndex) ==
    ForceMode(WithoutPrompt(finalArgv, rpcPromptIndex),
              IndexFrom(WithoutPrompt(finalArgv, rpcPromptIndex), "--mode", 1))

\* The argv of the run is built.
BuildArgv ==
    /\ input # None
    /\ output = None
    /\ output' = Some(rpcArgvForRun(input[1].finalArgv, input[1].rpcPromptIndex))
    /\ UNCHANGED <<input, queueVars, runVars, abortVars, cronVars, extVars>>

ArgvInit ==
    /\ RunIdleVars /\ QueueInitVars /\ AbortIdleVars /\ CronIdleVars /\ ExtIdleVars
    /\ input \in { Some(c) : c \in FinalArgvs(MaxArgs) }
    /\ output = None

ArgvNext == BuildArgv

ArgvSpec == ArgvInit /\ [][ArgvNext]_vars

----------------------------------------------------------------------------
(* Fast abort (src/auto-reply/reply/abort.ts).  The session store, the     *)
(* session keys and the embedded runs are modelled from their contracts.   *)

\* The most abort requests explored in one behaviour.
MaxAborts == 2

SessionKeys == {"agent:main:k1", "k1", "k2"}

SessionIds == {"s1"}

\* parseAgentSessionKey(key)?.rest: the key without its agent namespace.
LegacyKey(sessionKey) ==
    IF sessionKey = "agent:main:k1" THEN "k1" ELSE NULL

Entry(sessionId, abortedLastRun) ==
    [sessionId |-> sessionId, abortedLastRun |-> abortedLastRun]

\* resolveSessionEntryForKey with the legacy key tried first.
resolveSessionEntryForKey_LegacyFirst(store, sessionKey) ==
    IF sessionKey = NULL THEN [entry |-> None, key |-> NULL]
    ELSE IF LegacyKey(sessionKey) # NULL /\ store[LegacyKey(sessionKey)] # None
      THEN [entry |-> store[LegacyKey(sessionKey)], key |-> LegacyKey(sessionKey)]
    ELSE IF store[sessionKey] # None
      THEN [entry |-> store[sessionKey], key |-> sessionKey]
    ELSE [entry |-> None, key |-> NULL]

\* resolveSessionEntryForKey   (abort.ts:39-52)
resolveSessionEntryForKey(store, sessionKey) ==
    IF sessionKey = NULL THEN [entry |-> None, key |-> NULL]
    ELSE IF store[sessionKey] # None
      THEN [entry |-> store[sessionKey], key |-> sessionKey]
    ELSE IF LegacyKey(sessionKey) # NULL /\ store[LegacyKey(sessionKey)] # None
      THEN [entry |-> store[LegacyKey(sessionKey)], key |-> LegacyKey(sessionKey)]
    ELSE [entry |-> None, key |-> NULL]

\* abortEmbeddedPiRun(sessionId): the live run of the session is signalled.
abortEmbeddedPiRun(sessionId) == sessionId \in liveRuns

\* The message of an abort request as tryFastAbortFromMessage reads it:
\* whether it passes the three early returns (abort.ts:66-91), the target
\* session key (abort.ts:54-59) and the sender.
Ctx(gate, targetKey, from, to) ==
    [gate |-> gate, targetKey |-> targetKey, from |-> from, to |-> to]

ABORT_TRIGGERS == {<<"stop">>, <<"esc">>, <<"abort">>, <<"wait">>, <<"exit">>}

\* An isAbortTrigger that accepts a text that starts with a trigger word.
isAbortTrigger_Prefix(text) ==
    Trim(text) # <<>> /\ <<LowerOf(Head(Trim(text)))>> \in ABORT_TRIGGERS

\* isAbortTrigger(text)   (abort.ts:25-29)
isAbortTrigger(text) ==
    IF text = <<>> THEN FALSE
    ELSE ToLowerCase(Trim(text)) \in ABORT_TRIGGERS

\* normalizeCommandBody (commands-registry.js): the command of a body, here
\* the body without the blanks around it.
normalizeCommandBody(body) == Trim(body)

\* A message as the three early returns read it: whether text commands are
\* allowed on its surface, whether its sender is authorized, and its body
\* once stripped of structural prefixes and mentions.
AbortBodies ==
    { <<"stop">>, <<" ", "STOP", " ">>, <<"Esc">>, <<"abort">>, <<"wait">>,
      <<"exit">>, <<"/stop">>, <<" ", "/stop">>, <<>>, <<" ">>, <<"a">>,
      <<"stop", " ", "a">>, <<"a", " ", "stop">>, <<"/stop", " ", "a">> }

AbortMessages ==
    [allowTextCommands : BOOLEAN, isAuthorizedSender : BOOLEAN,
     stripped : AbortBodies]

\* Which of the early returns a message takes, "ok" if none (abort.ts:66-91)
Gate(m) ==
    IF ~m.allowTextCommands THEN "noTextCommands"
    ELSE IF ~m.isAuthorizedSender THEN "unauthorized"
    ELSE IF ~(normalizeCommandBody(m.stripped) = <<"/stop">>
                \/ isAbortTrigger(m.stripped))
      THEN "notAbort"
    ELSE "ok"

AbortCtxs ==
    { Ctx(Gate(m), "k1", "+1", "+2") : m \in AbortMessages }
      \cup { Ctx("ok", k, "+1", "+2") : k \in SessionKeys }
      \cup { Ctx("ok", NULL, "+1", "+2"), Ctx("ok", NULL, NULL, "+2"),
             Ctx("ok", NULL, NULL, NULL),
             Ctx("noTextCommands", "k1", "+1", "+2"),
             Ctx("unauthorized", "k1", "+1", "+2"),
             Ctx("notAbort", "k1", "+1", "+2") }

\* abortKey = targetKey ?? auth.from ?? auth.to   (abort.ts:93)
AbortKey(ctx) ==
    IF ctx.targetKey # NULL THEN ctx.targetKey
    ELSE IF ctx.from # NULL THEN ctx.from ELSE ctx.to

AbortKeys == SessionKeys \cup {"+1", "+2"}

Result(handled, aborted) == [handled |-> handled, aborted |-> aborted]

\* setAbortMemory that records nothing.
setAbortMemory_Forgets(memory, key) == memory

\* setAbortMemory(key, true)   (abort.ts:35-37)
setAbortMemory(memory, key) ==
    IF key # NULL THEN [memory EXCEPT ![key] = Some(TRUE)] ELSE memory

\* The store saved as it was loaded.
Stamped_NotStamped(store, resolved) == store

\* The stamped entry written back under the namespaced key of a legacy match.
Stamped_UnderNamespacedKey(store, resolved) ==
    [store EXCEPT ![IF resolved.key = "k1" THEN "agent:main:k1" ELSE resolved.key] =
        Some([resolved.entry[1] EXCEPT !.abortedLastRun = TRUE])]

\* entry.abortedLastRun = true; store[key] = entry   (abort.ts:102-105)
Stamped(store, resolved) ==
    [store EXCEPT ![resolved.key] =
        Some([resolved.entry[1] EXCEPT !.abortedLastRun = TRUE])]

\* The request has a target key   (abort.ts:95-110)
AbortTarget(ctx, resolved) ==
    /\ sessionStore' = IF resolved.entry # None
                         THEN Stamped(sessionStore, resolved) ELSE sessionStore
    /\ storeWrites' = IF resolved.entry # None THEN storeWrites + 1 ELSE storeWrites
    /\ abortMemory' = IF resolved.entry # None THEN abortMemory
                      ELSE setAbortMemory(abortMemory, AbortKey(ctx))
    /\ abortLog' = Append(abortLog,
                     [ctx |-> ctx, loaded |-> TRUE,
                      result |-> Result(TRUE,
                                   resolved.entry # None
                                     /\ resolved.entry[1].sessionId # NULL
                                     /\ abortEmbeddedPiRun(resolved.entry[1].sessionId))])

\* tryFastAbortFromMessage   (abort.ts:61-116)
tryFastAbortFromMessage(ctx) ==
    /\ Len(abortLog) < MaxAborts
    /\ IF ctx.gate # "ok"
         THEN /\ abortLog' = Append(abortLog, [ctx |-> ctx, loaded |-> FALSE,
                                                result |-> Result(FALSE, FALSE)])
              /\ UNCHANGED <<sessionStore, storeWrites, abortMemory>>
       ELSE IF ctx.targetKey # NULL
         THEN \E resolved \in {resolveSessionEntryForKey(sessionStore, ctx.targetKey)} :
                 AbortTarget(ctx, resolved)
       ELSE /\ abortMemory' = setAbortMemory(abortMemory, AbortKey(ctx))
            /\ abortLog' = Append(abortLog, [ctx |-> ctx, loaded |-> FALSE,
                                              result |-> Result(TRUE, FALSE)])
            /\ UNCHANGED <<sessionStore, storeWrites>>
    /\ UNCHANGED <<liveRuns, queueVars, runVars, fnVars, cronVars, extVars>>

\* The persisted store when the first request arrives: for each key no entry,
\* or an entry with or without a session id.
AbortInit ==
    /\ RunIdleVars /\ QueueInitVars /\ FnIdleVars /\ CronIdleVars /\ ExtIdleVars
    /\ sessionStore \in [SessionKeys ->
                           {None} \cup { Some(Entry(sid, FALSE)) :
                                           sid \in SessionIds \cup {NULL} }]
    /\ abortMemory = [k \in AbortKeys |-> None]
    /\ liveRuns \in SUBSET SessionIds
    /\ storeWrites = 0
    /\ abortLog = <<>>

AbortNext == \E ctx \in AbortCtxs : tryFastAbortFromMessage(ctx)

AbortSpec == AbortInit /\ [][AbortNext]_vars

----------------------------------------------------------------------------
(* Claims about the reply built from what the runner handed back.          *)

\* The runner returned and the reply is built.
Replied == output # None /\ ~input[1].exit.thrown

\* The reply is built from the reply items: exit code 0 or none, no kill
\* without a signal, and not everything streamed already.
FromItems(run) ==
    /\ run.exit.code \in {None, Some(0)}
    /\ ~(run.exit.killed /\ run.exit.signal = NULL)
    /\ ~(run.streamed /\ onPartialReply)

\* C12: the fallback text is the assistant text of the RPC stream when there
\* is one, else the last "text":"..." occurrence of the noise-stripped output
\* when there is one, else the noise-stripped output; and when the parser
\* produced texts or tool results the reply is built from them alone (from
\* the no-output notice when they give no item).
C12_FallbackOrder ==
    Replied =>
      LET run == input[1]
          kept == stripRpcNoise(run.stdout)
          rpc == extractRpcAssistantText(run.stdout)
          rpcKept == extractRpcAssistantText(kept)
          loose == extractAssistantTextLoosely(kept)
          fb == output[1].fallbackText
          out == OutOf(run)
      IN /\ rpc # None => fb = rpc[1]
         /\ (rpc = None /\ rpcKept # None) => fb = rpcKept[1]
         /\ (rpc = None /\ rpcKept = None /\ loose # None) => fb = loose[1]
         /\ (rpc = None /\ rpcKept = None /\ loose = None) => fb = RawText(kept)
         /\ (FromItems(run)
               /\ (out.parsedTexts # <<>> \/ out.parsedToolResults # <<>>))
              => output[1].reply.payloads
                   = BuildPayloads(WithNotice(TextItems(TrimAll(out.parsedTexts))),
                                   out)

\* The output has no assistant text of the RPC stream and a "text":"a"
\* occurrence after a line that is not JSON: the reply is that text.
C12_Witness ==
    /\ Replied
    /\ FromItems(input[1])
    /\ input[1].body = <<"b">>
    /\ extractRpcAssistantText(input[1].stdout) = None
    /\ extractAssistantTextLoosely(stripRpcNoise(input[1].stdout)) = Some(<<"a">>)
    /\ Len(stripRpcNoise(input[1].stdout)) = 2
    /\ output[1].fallbackText = <<"a">>
    /\ output[1].reply.payloads = <<Payload(<<"a">>, <<>>)>>

\* The run whose reply was built gave no reply item of its own.
NoParsedItem == TextItems(TrimAll(OutOf(input[1]).parsedTexts)) = <<>>

\* The reply is the no-output payload and nothing of it is the text `t`.
OnlyNotice(reply, t) ==
    /\ reply.payloads = <<Payload(NoOutputNotice, <<>>)>>
    /\ \A i \in 1..Len(reply.payloads) : reply.payloads[i].text # t

FailedExit(run) == ~run.exit.thrown /\ run.exit.code \notin {None, Some(0)}

\* The captured output an exit report quotes: the assistant text of the RPC
\* stream, else the noise-stripped output.
CapturedOutput(run) ==
    IF extractRpcAssistantText(run.stdout) # None
      THEN extractRpcAssistantText(run.stdout)[1]
      ELSE RawText(stripRpcNoise(run.stdout))

\* The part of an exit report before the output.
ReportHead(run) ==
    <<"Command exited with code", " ", ToString(run.exit.code[1])>>
      \o (IF run.exit.signal # NULL THEN <<" ", "(", run.exit.signal, ")">> ELSE <<>>)

Min(a, b) == IF a < b THEN a ELSE b

Includes(t, part) ==
    \E i \in 1..(Len(t) - Len(part) + 1) : SubSeq(t, i, i + Len(part) - 1) = part

\* The subprocess was killed after it wrote one text delta.
KilledAfterDelta(run) == run.exit.killed /\ run.stdout = <<TextDelta>>

\* C15: a subprocess killed on its timeout after it wrote a text delta is
\* answered with killed = true and with one timeout error payload that
\* includes the text of the delta, whether the kill comes as a returned result
\* (with or without a signal) or as a thrown error.
C15_TimeoutPartial ==
    (output # None /\ KilledAfterDelta(input[1])) =>
      /\ output[1].reply.killed
      /\ Len(output[1].reply.payloads) = 1
      /\ Head(output[1].reply.payloads[1].text) = "Command timed out"
      /\ Includes(output[1].reply.payloads[1].text, TextDelta.chunk)

\* The run ended normally: the runner returned with exit code 0, not killed.
EndedNormally ==
    /\ pc = "done"
    /\ ~returned[1].threw
    /\ returned[1].exitCode = Some(0)
    /\ ~returned[1].killed

\* The reply item was handed to the partial-reply callback.
ItemDelivered(item) ==
    \E i \in 1..Len(delivered) : delivered[i] = Payload(item.text, item.media)

\* C32: after a normal end the returned list is empty exactly when a payload
\* went through the partial-reply callback; then every reply item built
\* from the final output was delivered through the callback, and otherwise
\* every reply item is a payload of the returned list.
C32_NoDoubleNoLost ==
    EndedNormally =>
      /\ (returned[1].payloads = <<>>) <=> (Len(delivered) > 0)
      /\ Len(delivered) > 0
            => \A k \in 1..Len(returned[1].items) :
                  ItemDelivered(returned[1].items[k])
      /\ Len(delivered) = 0
            => Len(returned[1].payloads) = Len(returned[1].items)

----------------------------------------------------------------------------
(* Claims about the lines onEvent discards.                                *)

\* C16: a line that is not JSON, or whose type is no event of the protocol,
\* leaves the reducer as it was (pending tool name and metas, debounce timer,
\* last streamed assistant text, streamedAny) and delivers no payload.
C16_MalformedDiscarded ==
    [][\A ev \in Events :
          (ev.type \in {"malformed", "unrecognized"} /\ Event(ev, MaxReplyEvents))
            => UNCHANGED <<pendingToolName, pendingMetas, pendingTimer, timers,
                           lastStreamedAssistant, streamedAny, delivered>>]_vars

----------------------------------------------------------------------------
(* Claims about the argv handed to the runner.                             *)

\* C17: the argv handed to the runner has the adjacent pair --mode rpc, and
\* every --mode in it is followed by rpc.
C17_ForcedRpcMode ==
    output # None =>
      /\ \E i \in 1..(Len(output[1]) - 1) :
            output[1][i] = "--mode" /\ output[1][i + 1] = "rpc"
      /\ \A i \in 1..Len(output[1]) :
            output[1][i] = "--mode" => (i < Len(output[1]) /\ output[1][i + 1] = "rpc")

\* An argv without its first --mode and the argument that follows it.
RECURSIVE OtherArgs(_)
OtherArgs(argv) ==
    IF argv = <<>> THEN <<>>
    ELSE IF Head(argv) = "--mode" THEN SubSeq(argv, 3, Len(argv))
    ELSE <<Head(argv)>> \o OtherArgs(Tail(argv))

\* The flag is immediately followed by the value somewhere in argv.
Adjacent(argv, flag, value) ==
    \E i \in 1..(Len(argv) - 1) : argv[i] = flag /\ argv[i + 1] = value

\* C35: the argv handed to the runner keeps the arguments other than the
\* prompt and the mode pair, in their order, and a --session flag followed by
\* its path in the configured argv is followed by it in the argv handed on.
C35_RestOfArgvKept ==
    output # None =>
      /\ OtherArgs(output[1])
           = OtherArgs(WithoutPrompt(input[1].finalArgv, input[1].rpcPromptIndex))
      /\ Adjacent(WithoutPrompt(input[1].finalArgv, input[1].rpcPromptIndex),
                  "--session", "/s")
            => Adjacent(output[1], "--session", "/s")

----------------------------------------------------------------------------
(* Claims about fast abort.                                                *)

\* The last abort request handled and its result.
LastAbort == abortLog[Len(abortLog)]

\* C18: the entry resolved for a target key K is store[K] when it exists;
\* when it does not, store[legacy] for the legacy key of K when that exists;
\* else none.  The direct key wins when both exist.
C18_DirectThenLegacy ==
    \A K \in SessionKeys :
      LET r == resolveSessionEntryForKey(sessionStore, K)
          legacy == LegacyKey(K)
      IN IF sessionStore[K] # None
           THEN r.key = K /\ r.entry = sessionStore[K]
         ELSE IF legacy # NULL /\ sessionStore[legacy] # None
           THEN r.key = legacy /\ r.entry = sessionStore[legacy]
         ELSE r.entry = None

\* Both the key agent:main:k1 and its legacy key k1 had an entry when an
\* abort for agent:main:k1 came: the entry of the direct key is stamped, the
\* entry of the legacy key is not.
C18_Witness ==
    /\ Len(abortLog) = 1
    /\ LastAbort.ctx = Ctx("ok", "agent:main:k1", "+1", "+2")
    /\ sessionStore["agent:main:k1"] # None
    /\ sessionStore["agent:main:k1"][1].abortedLastRun
    /\ sessionStore["k1"] # None
    /\ ~sessionStore["k1"][1].abortedLastRun

\* An authorized abort request with a target key.
Targeted(ctx) == ctx.gate = "ok" /\ ctx.targetKey # NULL

\* C19: after an authorized abort request that resolves a persisted entry,
\* the store holds abortedLastRun = true under the key of that entry, whether
\* or not a run was live; the result is handled, and aborted exactly when the
\* entry has a session id whose live run was signalled.
C19_PersistedAbort ==
    [][\A ctx \in AbortCtxs :
          (Targeted(ctx) /\ tryFastAbortFromMessage(ctx)
             /\ resolveSessionEntryForKey(sessionStore, ctx.targetKey).entry # None)
            => LET r == resolveSessionEntryForKey(sessionStore, ctx.targetKey)
                   last == abortLog'[Len(abortLog')]
               IN /\ sessionStore'[r.key] # None
                  /\ sessionStore'[r.key][1].abortedLastRun
                  /\ sessionStore'[r.key][1].sessionId = r.entry[1].sessionId
                  /\ \A k \in SessionKeys \ {r.key} : sessionStore'[k] = sessionStore[k]
                  /\ last.result.handled
                  /\ last.result.aborted
                       <=> (r.entry[1].sessionId # NULL
                              /\ r.entry[1].sessionId \in liveRuns)]_vars

\* An abort for k2, whose entry has a session id with no live run: the
\* entry is stamped and the result is handled, not aborted.
C19_Witness ==
    /\ abortLog # <<>>
    /\ LastAbort.ctx = Ctx("ok", "k2", "+1", "+2")
    /\ liveRuns = {}
    /\ sessionStore["k2"] = Some(Entry("s1", TRUE))
    /\ LastAbort.result = Result(TRUE, FALSE)
    /\ storeWrites = 1

\* C20: after an authorized abort request whose target key resolves no entry,
\* directly or by its legacy key, AbortMemory holds true under the abort key
\* and is otherwise as before, the store was not written, and the result is
\* handled and not aborted.
C20_MemoryOnly ==
    [][\A ctx \in AbortCtxs :
          (Targeted(ctx) /\ tryFastAbortFromMessage(ctx)
             /\ sessionStore[ctx.targetKey] = None
             /\ (LegacyKey(ctx.targetKey) = NULL
                   \/ sessionStore[LegacyKey(ctx.targetKey)] = None))
            => /\ abortMemory'[AbortKey(ctx)] = Some(TRUE)
               /\ \A k \in AbortKeys \ {AbortKey(ctx)} : abortMemory'[k] = abortMemory[k]
               /\ sessionStore' = sessionStore
               /\ storeWrites' = storeWrites
               /\ abortLog'[Len(abortLog')].result = Result(TRUE, FALSE)]_vars

\* An abort for agent:main:k1 when neither it nor k1 has an entry: only
\* AbortMemory changed.
C20_Witness ==
    /\ Len(abortLog) = 1
    /\ LastAbort.ctx = Ctx("ok", "agent:main:k1", "+1", "+2")
    /\ sessionStore["agent:main:k1"] = None
    /\ sessionStore["k1"] = None
    /\ abortMemory["agent:main:k1"] = Some(TRUE)
    /\ storeWrites = 0
    /\ LastAbort.result = Result(TRUE, FALSE)

\* C21: an abort request changes at most the abortedLastRun of one entry of
\* the persisted store: no entry gets another sessionId, no key is added
\* (a legacy match is written back under the legacy key) and none is deleted.
C21_SessionIdentityKept ==
    [][/\ \A k \in SessionKeys :
            /\ (sessionStore[k] = None) <=> (sessionStore'[k] = None)
            /\ sessionStore[k] # None =>
                 sessionStore'[k][1].sessionId = sessionStore[k][1].sessionId
       /\ Cardinality({k \in SessionKeys : sessionStore'[k] # sessionStore[k]}) <= 1
       /\ \A k \in SessionKeys :
            sessionStore'[k] # sessionStore[k] =>
              /\ storeWrites' = storeWrites + 1
              /\ k = resolveSessionEntryForKey(
                       sessionStore, abortLog'[Len(abortLog')].ctx.targetKey).key]_vars

\* Two aborts for agent:main:k1, which has no entry while its legacy key k1
\* has one: the entry of k1 is stamped with its session id kept, and
\* agent:main:k1 still has no entry.
C21_Witness ==
    /\ Len(abortLog) = 2
    /\ abortLog[1].ctx = Ctx("ok", "agent:main:k1", "+1", "+2")
    /\ abortLog[2].ctx = Ctx("ok", "agent:main:k1", "+1", "+2")
    /\ sessionStore["agent:main:k1"] = None
    /\ sessionStore["k1"] = Some(Entry("s1", TRUE))
    /\ storeWrites = 2

----------------------------------------------------------------------------
(* The cron store (src/cron/service/store.ts).  The file, the clock and    *)
(* the helpers imported by store.ts are modelled from their contracts.     *)

\* The latest time explored.
MaxNow == 2

\* The most calls of ensureLoaded and persist explored in one behaviour.
MaxCronCalls == 3

\* A job record: name and description are None or <<a text>>.
Job(name, description, payload, nextRunAtMs) ==
    [name |-> name, description |-> description, payload |-> payload,
     nextRunAtMs |-> nextRunAtMs]

\* The raw records an edit of the file can hold.
RawJobs ==
    { Job(Some(<<"a">>), None, "agentTurn", None),
      Job(Some(<<" ", "a", " ">>), None, "agentTurn", None),
      Job(None, None, "agentTurn", None),
      Job(Some(<<" ">>), Some(<<"b">>), "agentTurn", None),
      Job(Some(<<"a">>), Some(<<" ">>), "agentTurn", None),
      Job(Some(<<"a">>), Some(<<"b">>), "legacy", None) }

\* The job lists an edit of the file can hold.
FileJobs == {<<>>} \cup { <<j>> : j \in RawJobs }

\* inferLegacyName: a name made from the schedule and the payload.
inferLegacyName == Some(<<"done">>)

\* normalizeOptionalText: the trimmed text, undefined when blank.
normalizeOptionalText(v) ==
    IF v = None THEN None
    ELSE IF Trim(v[1]) = <<>> THEN None ELSE Some(Trim(v[1]))

\* migrateLegacyCronPayload: the payload in its current shape.
migrateLegacyCronPayload(payload) ==
    IF payload = "legacy" THEN "agentTurn" ELSE payload

\* The name after the load, with a blank left after it.
NormalName_Padded(name) ==
    IF name = None THEN inferLegacyName
    ELSE IF Trim(name[1]) = <<>> THEN inferLegacyName
    ELSE Some(Trim(name[1]) \o <<" ">>)

\* The name after the load   (store.ts:39-47)
NormalName(name) ==
    IF name = None THEN inferLegacyName
    ELSE IF Trim(name[1]) = <<>> THEN inferLegacyName ELSE Some(Trim(name[1]))

\* One record after the loop body   (store.ts:38-61)
NormalJob(raw) ==
    Job(NormalName(raw.name), normalizeOptionalText(raw.description),
        migrateLegacyCronPayload(raw.payload), raw.nextRunAtMs)

\* Whether the loop body sets `mutated` for the record   (store.ts:40-60)
Mutates(raw) ==
    \/ raw.name = None
    \/ (raw.name # None /\ Trim(raw.name[1]) = <<>>)
    \/ raw.description # normalizeOptionalText(raw.description)
    \/ raw.payload # migrateLegacyCronPayload(raw.payload)

\* recomputeNextRuns: the next run of every job, from the current time.
recomputeNextRuns(jobs, now) ==
    [i \in 1..Len(jobs) |-> [jobs[i] EXCEPT !.nextRunAtMs = Some(now + 1)]]

\* getFileMtimeMs   (store.ts:9-16)
getFileMtimeMs(file) == IF file = None THEN None ELSE Some(file[1].mtimeMs)

\* loadCronStore: the jobs of the file, none when there is no file.
loadCronStore(file) == IF file = None THEN <<>> ELSE file[1].jobs

\* saveCronStore: the file rewritten whole, at the current time.
saveCronStore(jobs, now) == Some([mtimeMs |-> now, jobs |-> jobs])

\* needsReload that is always true.
needsReload_Always(st, fileMtimeMs) == TRUE

\* needsReload   (store.ts:25-29)
needsReload(st, fileMtimeMs) ==
    \/ st.store = None
    \/ (fileMtimeMs # None /\ st.storeFileMtimeMs # None
          /\ fileMtimeMs[1] > st.storeFileMtimeMs[1])

CronState(store, storeLoadedAtMs, storeFileMtimeMs) ==
    [store |-> store, storeLoadedAtMs |-> storeLoadedAtMs,
     storeFileMtimeMs |-> storeFileMtimeMs]

Hist(calls, hits, reads, recomputes, persists, lastWrite) ==
    [calls |-> calls, hits |-> hits, reads |-> reads, recomputes |-> recomputes,
     persists |-> persists, lastWrite |-> lastWrite]

\* The mtime recorded after a save, `old` being the one recorded before.
storeFileMtimeMs_Stale(old, file) == old

\* state.storeFileMtimeMs = await getFileMtimeMs(...)   (store.ts:95)
storeFileMtimeMs(old, file) == getFileMtimeMs(file)

\* The load of ensureLoaded; `jobs` is what loadCronStore returned
\* (store.ts:35-73)
Reload(jobs, mutated) ==
    /\ cronFile' = IF mutated
                     THEN saveCronStore(
                            recomputeNextRuns(
                              [i \in 1..Len(jobs) |-> NormalJob(jobs[i])], cronNow),
                            cronNow)
                     ELSE cronFile
    /\ state' = CronState(
           Some(recomputeNextRuns([i \in 1..Len(jobs) |-> NormalJob(jobs[i])], cronNow)),
           Some(cronNow),
           IF mutated
             THEN storeFileMtimeMs(getFileMtimeMs(cronFile), cronFile')
             ELSE getFileMtimeMs(cronFile))
    /\ cronHist' = Hist(cronHist.calls + 1, cronHist.hits, cronHist.reads + 1,
                        cronHist.recomputes + 1,
                        cronHist.persists + (IF mutated THEN 1 ELSE 0),
                        IF mutated THEN "persist" ELSE cronHist.lastWrite)

\* ensureLoaded   (store.ts:18-73)
ensureLoaded ==
    /\ cronHist.calls < MaxCronCalls
    /\ IF needsReload(state, getFileMtimeMs(cronFile))
         THEN Reload(loadCronStore(cronFile),
                     \E i \in 1..Len(loadCronStore(cronFile)) :
                        Mutates(loadCronStore(cronFile)[i]))
         ELSE /\ cronHist' = [cronHist EXCEPT !.calls = @ + 1, !.hits = @ + 1]
              /\ UNCHANGED <<state, cronFile>>
    /\ UNCHANGED <<cronNow, queueVars, runVars, fnVars, abortVars, extVars>>

\* persist   (store.ts:89-96)
persist ==
    /\ cronHist.calls < MaxCronCalls
    /\ IF state.store = None
         THEN UNCHANGED <<state, cronFile>>
         ELSE /\ cronFile' = saveCronStore(state.store[1], cronNow)
              /\ state' = [state EXCEPT !.storeFileMtimeMs =
                                           storeFileMtimeMs(@, cronFile')]
    /\ cronHist' = [cronHist EXCEPT !.calls = @ + 1,
                      !.persists = @ + (IF state.store = None THEN 0 ELSE 1),
                      !.lastWrite = IF state.store = None THEN @ ELSE "persist"]
    /\ UNCHANGED <<cronNow, queueVars, runVars, fnVars, abortVars, extVars>>

\* Someone else rewrites the file.
ExternalEdit(jobs) ==
    /\ cronFile' = Some([mtimeMs |-> cronNow, jobs |-> jobs])
    /\ cronFile' # cronFile
    /\ cronHist' = [cronHist EXCEPT !.lastWrite = "external"]
    /\ UNCHANGED <<cronNow, state, queueVars, runVars, fnVars, abortVars, extVars>>

\* Time passes.
Tick ==
    /\ cronNow < MaxNow
    /\ cronNow' = cronNow + 1
    /\ UNCHANGED <<cronFile, state, cronHist, queueVars, runVars, fnVars, abortVars, extVars>>

\* The service starts again: its state is new, the file stays.
Restart ==
    /\ state.store # None
    /\ state' = CronState(None, None, None)
    /\ UNCHANGED <<cronFile, cronNow, cronHist, queueVars, runVars, fnVars, abortVars, extVars>>

CronInit ==
    /\ RunIdleVars /\ QueueInitVars /\ FnIdleVars /\ AbortIdleVars /\ ExtIdleVars
    /\ cronFile \in {None} \cup { Some([mtimeMs |-> 0, jobs |-> js]) : js \in FileJobs }
    /\ cronNow = 0
    /\ state = CronState(None, None, None)
    /\ cronHist = Hist(0, 0, 0, 0, 0, "external")

CronNext ==
    \/ ensureLoaded
    \/ persist
    \/ \E js \in FileJobs : ExternalEdit(js)
    \/ Tick
    \/ Restart

CronSpec == CronInit /\ [][CronNext]_vars

----------------------------------------------------------------------------
(* Claims about the cron store.                                            *)

\* C22: ensureLoaded on a loaded store whose file has the mtime recorded at
\* the last load or save reads no file, recomputes nothing, persists nothing
\* and leaves state.store (every nextRunAtMs included), storeLoadedAtMs and
\* storeFileMtimeMs as they were.
C22_CacheHit ==
    [][(ensureLoaded /\ state.store # None
          /\ getFileMtimeMs(cronFile) = state.storeFileMtimeMs)
         => /\ state' = state
            /\ cronFile' = cronFile
            /\ cronHist'.reads = cronHist.reads
            /\ cronHist'.recomputes = cronHist.recomputes
            /\ cronHist'.persists = cronHist.persists]_vars

\* A store loaded at time 0, then a call at time 1 that returned early: the
\* next run computed at time 0 is still there.
C22_Witness ==
    /\ cronHist.hits = 1
    /\ cronHist.reads = 1
    /\ cronNow = 1
    /\ state.store # None
    /\ state.storeLoadedAtMs = Some(0)
    /\ Len(state.store[1]) = 1
    /\ state.store[1][1].nextRunAtMs = Some(1)
    /\ getFileMtimeMs(cronFile) = state.storeFileMtimeMs

\* The file's mtime is past the one recorded at the last load or save; a
\* file that did not exist then, and exists now, counts as past it.
MtimeAdvanced ==
    /\ cronFile # None
    /\ (state.storeFileMtimeMs = None
          \/ cronFile[1].mtimeMs > state.storeFileMtimeMs[1])

\* C23: ensureLoaded reloads exactly when the store was never loaded or the
\* file's mtime is past the one recorded at the last load or save, a file
\* created after a load that found none included.
C23_ReloadIffAdvanced ==
    [][ensureLoaded =>
         ((cronHist'.reads = cronHist.reads + 1)
            <=> (state.store = None \/ MtimeAdvanced))]_vars

\* The name, description and payload of the records.
RECURSIVE Shapes(_)
Shapes(jobs) ==
    IF jobs = <<>> THEN <<>>
    ELSE << <<Head(jobs).name, Head(jobs).description, Head(jobs).payload>> >>
           \o Shapes(Tail(jobs))

\* ensureLoaded read the file in this step.
Loaded == ensureLoaded /\ cronHist'.reads = cronHist.reads + 1

\* C24: after a load the records of the file equal the records in memory in
\* name, description and payload: a load whose normalization changed a
\* record (name inferred or trimmed, description normalized, payload
\* migrated) persisted the store before it returned.
C24_DirtyLoadPersists ==
    [][Loaded =>
         Shapes(loadCronStore(cronFile')) = Shapes(state'.store[1])]_vars

\* C25: after a persist, alone or inside a dirty load, the file holds the
\* whole store and storeFileMtimeMs is the file's mtime; an ensureLoaded that
\* follows with no external edit in between reads nothing and keeps the
\* store in memory.
C25_NoSelfReload ==
    [][/\ (cronHist'.persists = cronHist.persists + 1)
            => /\ cronFile' # None
               /\ cronFile'[1].jobs = state'.store[1]
               /\ state'.storeFileMtimeMs = Some(cronFile'[1].mtimeMs)
       /\ (ensureLoaded /\ state.store # None /\ cronHist.lastWrite = "persist")
            => /\ cronHist'.reads = cronHist.reads
               /\ state' = state
               /\ cronFile' = cronFile]_vars

\* A dirty load at time 0 persisted the store; at time 2 ensureLoaded
\* returned early.
C25_Witness ==
    /\ cronHist.lastWrite = "persist"
    /\ cronHist.persists = 1
    /\ cronHist.reads = 1
    /\ cronHist.calls = 2
    /\ cronHist.hits = 1
    /\ cronNow = 2
    /\ state.storeLoadedAtMs = Some(0)
    /\ state.storeFileMtimeMs = Some(0)
    /\ cronFile # None
    /\ cronFile[1].jobs = state.store[1]

\* C26: a load of the file this service persisted gives the records it had
\* in memory, in name, description and payload, and is not dirty: it
\* persists nothing.
C26_RoundTrip ==
    [][(Loaded /\ cronHist.lastWrite = "persist")
         => /\ Shapes(state'.store[1]) = Shapes(cronFile[1].jobs)
            /\ cronHist'.persists = cronHist.persists
            /\ cronFile' = cronFile]_vars

\* A job with no name was loaded, its name inferred and the store persisted;
\* the service started again and loaded the file: same records, no persist.
C26_Witness ==
    /\ cronHist.reads = 2
    /\ cronHist.persists = 1
    /\ cronHist.calls = 2
    /\ cronHist.lastWrite = "persist"
    /\ state.store # None
    /\ Len(state.store[1]) = 1
    /\ state.store[1][1].name = inferLegacyName
    /\ Shapes(state.store[1]) = Shapes(cronFile[1].jobs)

----------------------------------------------------------------------------
(* splitMediaFromOutput as a function of a text (src/media/parse.ts): the  *)
(* function is applied to a text and then to the text it returned.         *)

\* The most lines of a text handed to splitMediaFromOutput.
MaxMediaLines == 2

MediaLines ==
    { <<>>,
      <<"a">>,
      <<"a", " ", " ", "b">>,
      <<"~~~">>,
      <<"MEDIA:", " ", "a">>,
      <<"MEDIA:", " ", "/p">>,
      <<"MEDIA:", " ", "/p", " ", "a">>,
      <<"b", " ", "MEDIA:", "/p">>,
      <<"MEDIA:", " ", "'", "/p", "'">>,
      <<"MEDIA:", " ", "file://", "/p">>,
      <<"MEDIA:", "http://x", " ", "/p">>,
      <<"MEDIA:", " ", "/long">>,
      <<"MEDIA:", "/long", "a">>,
      <<"MEDIA:", "/long", "a", "a">>,
      <<"MEDIA:", " ", "/p", " ", "MEDIA:", " ", "a">>,
      <<"[[", "audio_as_voice", "]]">>,
      <<"a", " ", "[[", "AUDIO_AS_VOICE", "]]">>,
      <<"[[", "audio_as_voice", "]]", " ", "MEDIA:", " ", "/p">>,
      <<"MEDIA:", " ", "/p", " ", "[[", "audio_as_voice", "]]">>,
      <<"MEDIA:", " ", "a", " ", "[[", "audio_as_voice", "]]">> }

\* The texts of n lines.
RECURSIVE TextsOfLines(_)
TextsOfLines(n) ==
    IF n = 1 THEN MediaLines
    ELSE { t \o <<"\n">> \o l : t \in TextsOfLines(n - 1), l \in MediaLines }

MediaTexts == UNION { TextsOfLines(n) : n \in 1..MaxMediaLines }

\* r = splitMediaFromOutput(t)
SplitMedia ==
    /\ output = <<>>
    /\ output' = <<splitMediaFromOutput(input[1])>>
    /\ UNCHANGED <<input, queueVars, runVars, abortVars, cronVars, extVars>>

\* splitMediaFromOutput(r.text)
SplitAgain ==
    /\ Len(output) = 1
    /\ output' = Append(output, splitMediaFromOutput(output[1].text))
    /\ UNCHANGED <<input, queueVars, runVars, abortVars, cronVars, extVars>>

MediaInit ==
    /\ RunIdleVars /\ QueueInitVars /\ AbortIdleVars /\ CronIdleVars /\ ExtIdleVars
    /\ input \in { Some(t) : t \in MediaTexts }
    /\ output = None

MediaNext == SplitMedia \/ SplitAgain

MediaSpec == MediaInit /\ [][MediaNext]_vars

----------------------------------------------------------------------------
(* Claims about splitMediaFromOutput.                                      *)

\* The candidates of a text: the parts of the payload of every MEDIA: token
\* on a line outside a fenced block, in order.
RECURSIVE CandidatesFrom(_, _, _)
CandidatesFrom(lines, fenceSpans, i) ==
    IF i > Len(lines) THEN <<>>
    ELSE (IF i \in fenceSpans \/ MediaMatchFrom(lines[i], 1) = 0
            THEN <<>>
            ELSE Words(SubSeq(lines[i], MediaMatchFrom(lines[i], 1) + 1,
                              Len(lines[i]))))
           \o CandidatesFrom(lines, fenceSpans, i + 1)

CandidatesIn(lines) == CandidatesFrom(lines, parseFenceSpans(lines), 1)

Candidates(raw) == CandidatesIn(SplitLines(TrimEnd(raw)))

\* The text `part` occurs in the text `t`.
OccursIn(part, t) ==
    \E i \in 1..(Len(t) - Len(part) + 1) :
        SubSeq(t, i, i + Len(part) - 1) = part

\* splitMediaFromOutput was applied to the input text.
Split == input # None /\ Len(output) >= 1

\* C27: every candidate after a MEDIA: token that fails validation is still
\* in the text splitMediaFromOutput returns, unchanged, whether or not its
\* line has a valid candidate.
C27_InvalidKept ==
    Split =>
      \A k \in 1..Len(Candidates(input[1])) :
          ~IsValidMedia(Candidates(input[1])[k])
            => OccursIn(Candidates(input[1])[k], output[1].text)

\* The candidates as splitMediaFromOutput returns them when they are valid:
\* without their wrapping and without a leading file:// scheme.
RECURSIVE Sources(_)
Sources(parts) ==
    IF parts = <<>> THEN <<>>
    ELSE <<normalizeMediaSource(cleanCandidate(Head(parts)))>>
           \o Sources(Tail(parts))

\* The text `ms` is made of elements of `cs`, in the order they have in cs.
RECURSIVE InOrderOf(_, _)
InOrderOf(ms, cs) ==
    IF ms = <<>> THEN TRUE
    ELSE IF cs = <<>> THEN FALSE
    ELSE IF Head(ms) = Head(cs) THEN InOrderOf(Tail(ms), Tail(cs))
    ELSE InOrderOf(ms, Tail(cs))

\* C28: every media reference returned is a candidate of a MEDIA: token on
\* a line outside the fenced blocks, is a URL or a path, has no whitespace,
\* has fewer than 1024 characters and no leading file:// scheme; the
\* references are in the order of the candidates, and mediaUrl is the first
\* of mediaUrls.
C28_MediaReferences ==
    Split =>
      /\ \A k \in 1..Len(output[1].mediaUrls) :
            /\ Head(output[1].mediaUrls[k]) \in SourceStarts
            /\ \A i \in 1..Len(output[1].mediaUrls[k]) :
                  ~IsSpace(output[1].mediaUrls[k][i])
            /\ Length(output[1].mediaUrls[k]) < MaxMediaLength
            /\ Head(output[1].mediaUrls[k]) # "file://"
      /\ InOrderOf(output[1].mediaUrls, Sources(Candidates(input[1])))
      /\ output[1].mediaUrl =
           (IF output[1].mediaUrls = <<>> THEN None
            ELSE Some(output[1].mediaUrls[1]))

\* splitMediaFromOutput was applied to the text it returned.
SplitTwice == input # None /\ Len(output) = 2

\* C29: splitMediaFromOutput applied to the text it returned finds no media
\* reference and returns that text.
C29_Idempotent ==
    SplitTwice =>
      /\ output[2].mediaUrls = <<>>
      /\ output[2].text = output[1].text

\* C30: a text that holds the tag [[audio_as_voice]] anywhere, in any letter
\* case, gives audioAsVoice = true and a text without any occurrence of the
\* tag; a text that does not hold it gives no audioAsVoice.
C30_AudioAsVoice ==
    Split =>
      IF HasAudioAsVoice(input[1])
        THEN output[1].audioAsVoice /\ ~HasAudioAsVoice(output[1].text)
        ELSE ~output[1].audioAsVoice

----------------------------------------------------------------------------
(* The Control UI application (ClawdisApp, part_003:69-244): its settings, *)
(* the password field and the gateway client.  The overview view and the   *)
(* storage module are outside the source: the view hands a whole           *)
(* UiSettings to onSettingsChange, saveSettings persists what it is given. *)

\* The variables of the parts modelled before the Control UI.
coreVars == <<queueVars, runVars, fnVars, abortVars, cronVars>>

CoreIdleVars ==
    RunIdleVars /\ QueueInitVars /\ FnIdleVars /\ AbortIdleVars /\ CronIdleVars

\* The variables the Control UI application leaves alone.
appRest == <<coreVars, loads, uiVars>>

\* What the operator types: tokens, usernames and session keys on one hand,
\* passwords on the other (a secret that is typed in no other field).
Tokens == {<<>>, <<"t">>}

Usernames == {<<>>, <<" ", "u">>}

UiSessionKeys == {<<"main">>, <<"s2">>}

Passwords == {<<>>, <<" ">>, <<"pw">>}

UiSettings(gatewayUrl, token, username, sessionKey) ==
    [gatewayUrl |-> gatewayUrl, token |-> token, username |-> username,
     sessionKey |-> sessionKey]

AllUiSettings ==
    { UiSettings(<<"ws://h">>, t, u, k) :
        t \in Tokens, u \in Usernames, k \in UiSessionKeys }

\* A text, or undefined (None) when it is blank   (x.trim() ? y : undefined)
OrUndefined(x, y) == IF Trim(x) = <<>> THEN None ELSE Some(y)

\* applySettings handing the password to saveSettings in the token field.
Persisted_WithPassword(next, pw) == [next EXCEPT !.token = pw]

\* saveSettings(next): what applySettings persists   (part_003:243)
Persisted(next, pw) == next

\* applySettings(next)   (part_003:241-244)
applySettings(next) ==
    /\ settings' = Some(next)
    /\ savedSettings' = savedSettings \cup {Persisted(next, password)}

\* onSettingsChange: (next) => state.applySettings(next)   (part_004:193)
onSettingsChange(next) ==
    /\ applySettings(next)
    /\ UNCHANGED <<password, appSessionKey, client, appRest>>

\* onPasswordChange: (next) => (state.password = next)   (part_004:194)
onPasswordChange(next) ==
    /\ password' = next
    /\ UNCHANGED <<settings, appSessionKey, client, savedSettings, appRest>>

\* onSessionKeyChange   (part_004:195-198)
onSessionKeyChange(next) ==
    /\ appSessionKey' = next
    /\ applySettings([settings[1] EXCEPT !.sessionKey = next])
    /\ UNCHANGED <<password, client, appRest>>

\* connect(): the options of the new GatewayBrowserClient (part_003:169-200)
connect ==
    /\ client' = Some([url |-> settings[1].gatewayUrl,
                       token |-> OrUndefined(settings[1].token,
                                             settings[1].token),
                       username |-> OrUndefined(settings[1].username,
                                                Trim(settings[1].username)),
                       password |-> OrUndefined(password, password)])
    /\ UNCHANGED <<settings, password, appSessionKey, savedSettings, appRest>>

\* The component as constructed: settings = loadSettings(), password = "",
\* sessionKey = settings.sessionKey   (part_003:71-80)
AppInit ==
    /\ CoreIdleVars /\ LoadsIdleVars /\ UiIdleVars
    /\ settings \in { Some(st) : st \in AllUiSettings }
    /\ password = <<>>
    /\ appSessionKey = settings[1].sessionKey
    /\ client = None
    /\ savedSettings = {}

AppNext ==
    \/ \E next \in AllUiSettings : onSettingsChange(next)
    \/ \E next \in Passwords : onPasswordChange(next)
    \/ \E next \in UiSessionKeys : onSessionKeyChange(next)
    \/ connect

AppSpec == AppInit /\ [][AppNext]_vars

----------------------------------------------------------------------------
(* Claims about the Control UI application.                                *)

\* The passwords that are not blank.
Secrets == { pw \in Passwords : Trim(pw) # <<>> }

\* C31: no value handed to saveSettings holds a password: it has the fields
\* of UiSettings only and none of them is a typed password; the client's
\* options change at connect only, and then hold the password as typed
\* (undefined when blank).
C31_PasswordNotPersisted ==
    /\ \A saved \in savedSettings :
          /\ DOMAIN saved = {"gatewayUrl", "token", "username", "sessionKey"}
          /\ \A f \in DOMAIN saved : saved[f] \notin Secrets
    /\ client # None =>
          client[1].password \in {None} \cup { Some(pw) : pw \in Secrets }

\* A password was typed, settings were changed afterwards and saved, and the
\* client was connected with the password.
C31_Witness ==
    /\ password \in Secrets
    /\ client # None
    /\ client[1].password = Some(password)
    /\ Cardinality(savedSettings) >= 2
    /\ settings[1] \in savedSettings

----------------------------------------------------------------------------
(* Further claims about fast abort.                                        *)

\* The request stamped the entry its target key resolves and saved the store.
PersistedBy(ctx) ==
    /\ ctx.targetKey # NULL
    /\ storeWrites' = storeWrites + 1
    /\ \E k \in SessionKeys :
          /\ k = resolveSessionEntryForKey(sessionStore, ctx.targetKey).key
          /\ sessionStore'[k] # None
          /\ sessionStore'[k][1].abortedLastRun

\* AbortMemory holds true under the abort key of the request.
RememberedBy(ctx) ==
    AbortKey(ctx) # NULL /\ abortMemory'[AbortKey(ctx)] = Some(TRUE)

\* C33: a handled abort is recorded in exactly one tier: abortedLastRun = true
\* on a persisted entry, or true in AbortMemory under the abort key; never in
\* both and never in neither, whatever of target key, sender and recipient
\* the message has.
C33_ExactlyOneTier ==
    [][\A ctx \in AbortCtxs :
          (tryFastAbortFromMessage(ctx)
             /\ abortLog'[Len(abortLog')].result.handled)
            => (PersistedBy(ctx) # RememberedBy(ctx))]_vars

\* The message is held back: text commands are not allowed on its surface,
\* or its sender is not authorized, or its body is neither /stop nor a
\* trigger word once trimmed and lower-cased.
HeldBack(m) ==
    \/ ~m.allowTextCommands
    \/ ~m.isAuthorizedSender
    \/ /\ Trim(m.stripped) # <<"/stop">>
       /\ ToLowerCase(Trim(m.stripped)) \notin ABORT_TRIGGERS

\* C34: a request that is held back returns handled = false and aborted =
\* false, does not load or write the session store and leaves AbortMemory
\* and the runs as they are.
C34_Gating ==
    [][\A m \in AbortMessages :
          (HeldBack(m) /\ tryFastAbortFromMessage(Ctx(Gate(m), "k1", "+1", "+2")))
            => /\ abortLog'[Len(abortLog')].result = Result(FALSE, FALSE)
               /\ ~abortLog'[Len(abortLog')].loaded
               /\ sessionStore' = sessionStore
               /\ storeWrites' = storeWrites
               /\ abortMemory' = abortMemory
               /\ liveRuns' = liveRuns]_vars

\* A request whose body is not an abort ("stop a") for k1, which has an entry
\* with a live run: not handled, nothing loaded, written or remembered.
C34_Witness ==
    /\ Len(abortLog) = 1
    /\ LastAbort.ctx = Ctx("notAbort", "k1", "+1", "+2")
    /\ LastAbort.result = Result(FALSE, FALSE)
    /\ ~LastAbort.loaded
    /\ sessionStore["k1"] = Some(Entry("s1", FALSE))
    /\ "s1" \in liveRuns
    /\ storeWrites = 0
    /\ \A k \in AbortKeys : abortMemory[k] = None

----------------------------------------------------------------------------
(* Overlapping calls of ensureLoaded on one state (store.ts:18-96).  A     *)
(* call is suspended at its awaits: the stat of the file (store.ts:24),    *)
(* the read (store.ts:33) and the save of persist (store.ts:91-95).  A     *)
(* caller whose ensureLoaded returned adds a job to state.store and calls  *)
(* persist.                                                                *)

\* The calls of ensureLoaded in flight on the state.
NumLoads == 2

LoadIds == 1..NumLoads

\* A call: where it is ("idle", "stat", "read", "save", "returned",
\* "callerSave", "finished"), the mtime its stat gave, the store its persist
\* was handed, and (history) the mtime of the file when it returned.
Load(at, fileMtimeMs, saving, returnedAt) ==
    [at |-> at, fileMtimeMs |-> fileMtimeMs, saving |-> saving,
     returnedAt |-> returnedAt]

\* The job a caller adds to the store after its ensureLoaded returned.
NewJob == Job(Some(<<"b">>), None, "agentTurn", None)

\* The variables the overlapping calls leave alone.
loadsRest == <<queueVars, runVars, fnVars, abortVars, appVars, cronHist, uiVars>>

\* ensureLoaded(state) is called: it awaits the stat   (store.ts:24)
CallEnsureLoaded(c) ==
    /\ loads[c].at = "idle"
    /\ loads' = [loads EXCEPT ![c].at = "stat"]
    /\ UNCHANGED <<cronFile, cronNow, state, loadsRest>>

\* The stat resolves: needsReload is decided on the state as it is now; the
\* call returns or awaits the read   (store.ts:24-33)
StatResolves(c) ==
    /\ loads[c].at = "stat"
    /\ loads' = [loads EXCEPT ![c] =
          IF needsReload(state, getFileMtimeMs(cronFile))
            THEN Load("read", getFileMtimeMs(cronFile), None, None)
            ELSE Load("returned", getFileMtimeMs(cronFile), None,
                      Some(getFileMtimeMs(cronFile)))]
    /\ UNCHANGED <<cronFile, cronNow, state, loadsRest>>

\* The store a load puts in memory from the jobs it read.
LoadedStore(jobs) ==
    recomputeNextRuns([i \in 1..Len(jobs) |-> NormalJob(jobs[i])], cronNow)

\* The read resolves: the records are normalized, state.store is assigned,
\* the mtime of the stat is recorded; a dirty load awaits its persist
\* (store.ts:33-72)
ReadResolves(c) ==
    /\ loads[c].at = "read"
    /\ state' = CronState(Some(LoadedStore(loadCronStore(cronFile))),
                          Some(cronNow), loads[c].fileMtimeMs)
    /\ loads' = [loads EXCEPT ![c] =
          IF \E i \in 1..Len(loadCronStore(cronFile)) :
                Mutates(loadCronStore(cronFile)[i])
            THEN Load("save", loads[c].fileMtimeMs,
                      Some(LoadedStore(loadCronStore(cronFile))), None)
            ELSE Load("returned", loads[c].fileMtimeMs, None,
                      Some(getFileMtimeMs(cronFile)))]
    /\ UNCHANGED <<cronFile, cronNow, loadsRest>>

\* The save of a persist resolves and the new mtime is recorded
\* (store.ts:91-95)
SaveResolves(c) ==
    /\ loads[c].at \in {"save", "callerSave"}
    /\ cronFile' = saveCronStore(loads[c].saving[1], cronNow)
    /\ state' = [state EXCEPT !.storeFileMtimeMs = storeFileMtimeMs(@, cronFile')]
    /\ loads' = [loads EXCEPT ![c] =
          IF loads[c].at = "save"
            THEN Load("returned", loads[c].fileMtimeMs, None,
                      Some(getFileMtimeMs(cronFile')))
            ELSE [loads[c] EXCEPT !.at = "finished", !.saving = None]]
    /\ UNCHANGED <<cronNow, loadsRest>>

\* The caller of a returned ensureLoaded adds a job to state.store and
\* calls persist, which is handed state.store and awaits the save.
MutateAndPersist(c) ==
    /\ loads[c].at = "returned"
    /\ state.store # None
    /\ state' = [state EXCEPT !.store = Some(Append(state.store[1], NewJob))]
    /\ loads' = [loads EXCEPT ![c].at = "callerSave",
                              ![c].saving = Some(Append(state.store[1], NewJob))]
    /\ UNCHANGED <<cronFile, cronNow, loadsRest>>

LoadsInit ==
    /\ RunIdleVars /\ QueueInitVars /\ FnIdleVars /\ AbortIdleVars /\ AppIdleVars
    /\ UiIdleVars
    /\ cronFile \in {None} \cup { Some([mtimeMs |-> 0, jobs |-> js]) : js \in FileJobs }
    /\ cronNow = 0
    /\ state = CronState(None, None, None)
    /\ cronHist = Hist(0, 0, 0, 0, 0, "external")
    /\ loads = [c \in LoadIds |-> Load("idle", None, None, None)]

LoadsNext ==
    \/ \E c \in LoadIds : CallEnsureLoaded(c)
    \/ \E c \in LoadIds : StatResolves(c)
    \/ \E c \in LoadIds : ReadResolves(c)
    \/ \E c \in LoadIds : SaveResolves(c)
    \/ \E c \in LoadIds : MutateAndPersist(c)
    \/ Tick

LoadsSpec == LoadsInit /\ [][LoadsNext]_vars

----------------------------------------------------------------------------
(* Claims about overlapping calls of ensureLoaded.                         *)

\* The call has returned to its caller.
HasReturned(c) == loads[c].at \in {"returned", "callerSave", "finished"}

\* The mtime of the file is later than it was when the call returned.
AdvancedSince(c) ==
    /\ getFileMtimeMs(cronFile) # None
    /\ \/ loads[c].returnedAt[1] = None
       \/ getFileMtimeMs(cronFile)[1] > loads[c].returnedAt[1][1]

\* The store in memory holds the job a caller added.
HoldsNewJob(st) ==
    st.store # None /\ \E i \in 1..Len(st.store[1]) : st.store[1][i].name = NewJob.name

\* C36: once a call of ensureLoaded has returned, a call that completes its
\* load later assigns state.store only if the mtime of the file advanced
\* after that return, and a job added in memory after a completed load is
\* not discarded by the load of another call.
C36_NoStaleLoad ==
    [][\A c \in LoadIds :
          ReadResolves(c)
            => /\ \A d \in LoadIds \ {c} : HasReturned(d) => AdvancedSince(d)
               /\ HoldsNewJob(state) => HoldsNewJob(state')]_vars

----------------------------------------------------------------------------
(* The chat of the Control UI (controllers/chat: sendChat and             *)
(* handleChatEvent).  chat holds the fields of ChatState that the two      *)
(* functions read and write, the runs whose chat.send request is awaited,  *)
(* the next value of crypto.randomUUID, and (history) what the last call   *)
(* of handleChatEvent returned.                                            *)

\* The most calls of sendChat that reach the request in one behaviour.
MaxSends == 2

ChatSessionKeys == {"main", "other"}

\* Run ids: those sendChat draws, one that no sendChat drew, and 0 for the
\* empty string.
EventRunIds == 0..(MaxSends + 1)

\* What the operator leaves in the input box.
ChatInputs == {<<>>, <<" ">>, <<"h">>}

\* A message of an event: content is absent, a string, or an array of
\* parts; text is absent or a string.
ChatMessages ==
    { [content |-> c, text |-> t] :
        c \in { None,
                [string |-> <<"a">>],
                [parts |-> << [type |-> "text", text |-> Some(<<"a">>)],
                              [type |-> "image", text |-> Some(<<"i">>)],
                              [type |-> "text", text |-> Some(<<"b">>)] >>],
                [parts |-> << [type |-> "image", text |-> None] >>] },
        t \in { None, Some(<<"t">>) } }

ChatEventStates == {"delta", "final", "aborted", "error"}

ChatEventPayload(runId, sessionKey, st, message, errorMessage) ==
    [runId |-> runId, sessionKey |-> sessionKey, state |-> st,
     message |-> message, errorMessage |-> errorMessage]

ChatEvents ==
    { ChatEventPayload(r, k, st, m, e) :
        r \in EventRunIds, k \in ChatSessionKeys, st \in ChatEventStates,
        m \in {[content |-> None, text |-> None]},
        e \in {None} }
    \cup { ChatEventPayload(1, "main", "delta", m, None) : m \in ChatMessages }
    \cup { ChatEventPayload(1, "main", "error", [content |-> None, text |-> None], Some(<<"e">>)) }

\* The texts of the parts of type "text"   (chat.ts:97-103)
RECURSIVE TextParts(_)
TextParts(parts) ==
    IF parts = <<>> THEN <<>>
    ELSE (IF parts[1].type = "text" /\ parts[1].text # None
            THEN <<parts[1].text[1]>> ELSE <<>>)
         \o TextParts(Tail(parts))

\* extractText(message): a text or null   (chat.ts:92-108)
extractText(m) ==
    IF m.content # None /\ "string" \in DOMAIN m.content
      THEN Some(m.content.string)
    ELSE IF m.content # None /\ TextParts(m.content.parts) # <<>>
      THEN Some(Join(TextParts(m.content.parts), <<"\n">>))
    ELSE m.text

\* The fields of ChatState.
ChatState(c) ==
    [client |-> c.client, connected |-> c.connected, sessionKey |-> c.sessionKey,
     chatSending |-> c.chatSending, chatMessage |-> c.chatMessage,
     chatRunId |-> c.chatRunId, chatStream |-> c.chatStream,
     lastError |-> c.lastError]

\* The variables the chat leaves alone.
chatRest == <<coreVars, appVars, loads, ctrl, work>>

\* The gateway says hello, or the connection closes.
ChatConnection(up) ==
    /\ chat' = [chat EXCEPT !.connected = up]
    /\ UNCHANGED chatRest

\* The operator edits the input box.
ChatInput(text) ==
    /\ chat' = [chat EXCEPT !.chatMessage = text]
    /\ UNCHANGED chatRest

\* The operator picks another session.
ChatSession(k) ==
    /\ chat' = [chat EXCEPT !.sessionKey = k]
    /\ UNCHANGED chatRest

\* sendChat up to its await: a new run id, an empty stream   (chat.ts:43-59)
sendChat ==
    /\ chat.client /\ chat.connected
    /\ Trim(chat.chatMessage) # <<>>
    /\ chat.uuid <= MaxSends
    /\ chat' = [chat EXCEPT !.chatSending = TRUE,
                            !.lastError = None,
                            !.chatRunId = Some(chat.uuid),
                            !.chatStream = Some(<<>>),
                            !.uuid = chat.uuid + 1,
                            !.sends = chat.sends \cup {chat.uuid}]
    /\ UNCHANGED chatRest

\* The chat.send request of a run resolves or rejects   (chat.ts:60-67)
SendSettles(runId, ok) ==
    /\ runId \in chat.sends
    /\ chat' = IF ok
         THEN [chat EXCEPT !.chatMessage = <<>>,
                           !.chatSending = FALSE,
                           !.sends = chat.sends \ {runId}]
         ELSE [chat EXCEPT !.chatRunId = None,
                           !.chatStream = None,
                           !.lastError = Some(<<"err">>),
                           !.chatSending = FALSE,
                           !.sends = chat.sends \ {runId}]
    /\ UNCHANGED chatRest

\* The event is not for this chat: handleChatEvent returns null
\* (chat.ts:74-77)
Ignored(c, payload) ==
    \/ payload = None
    \/ payload[1].sessionKey # c.sessionKey
    \/ /\ payload[1].runId # 0
       /\ c.chatRunId # None
       /\ payload[1].runId # c.chatRunId[1]

\* The chat after an event that is for it   (chat.ts:79-88)
AfterEvent(c, p) ==
    IF p.state = "delta"
      THEN [c EXCEPT !.chatStream = IF extractText(p.message) # None
                                      THEN extractText(p.message) ELSE @]
    ELSE IF p.state = "final"
      THEN [c EXCEPT !.chatStream = None, !.chatRunId = None]
    ELSE IF p.state = "error"
      THEN [c EXCEPT !.chatStream = None, !.chatRunId = None,
                     !.lastError = IF p.errorMessage # None
                                     THEN p.errorMessage ELSE Some(<<"chat error">>)]
    ELSE c

\* handleChatEvent(state, payload)   (chat.ts:70-90)
handleChatEvent(payload) ==
    /\ chat' = [(IF Ignored(chat, payload) THEN chat ELSE AfterEvent(chat, payload[1]))
                  EXCEPT !.handled =
                    Some(IF Ignored(chat, payload)
                           THEN "null" ELSE payload[1].state)]
    /\ UNCHANGED chatRest

ChatInit ==
    /\ CoreIdleVars /\ AppIdleVars /\ LoadsIdleVars
    /\ ctrl = <<>> /\ work = <<>>
    /\ chat = [client |-> TRUE, connected |-> FALSE, sessionKey |-> "main",
               chatSending |-> FALSE, chatMessage |-> <<>>,
               chatRunId |-> None, chatStream |-> None, lastError |-> None,
               uuid |-> 1, sends |-> {}, handled |-> None]

ChatNext ==
    \/ \E up \in BOOLEAN : ChatConnection(up)
    \/ \E text \in ChatInputs : ChatInput(text)
    \/ \E k \in ChatSessionKeys : ChatSession(k)
    \/ sendChat
    \/ \E r \in EventRunIds, ok \in BOOLEAN : SendSettles(r, ok)
    \/ \E payload \in {None} \cup { Some(e) : e \in ChatEvents } : handleChatEvent(payload)

ChatSpec == ChatInit /\ [][ChatNext]_vars

----------------------------------------------------------------------------
(* Claims about the run of the chat.                                       *)

\* The event is for the session and the active run of the chat.
ForActiveRun(c, payload) ==
    /\ payload # None
    /\ payload[1].sessionKey = c.sessionKey
    /\ c.chatRunId = Some(payload[1].runId)

\* The event is for another session, or for a run other than the active one.
ForAnother(c, payload) ==
    /\ payload # None
    /\ \/ payload[1].sessionKey # c.sessionKey
       \/ /\ c.chatRunId # None
          /\ payload[1].runId # 0
          /\ c.chatRunId # Some(payload[1].runId)

\* C37: after handleChatEvent handled a final, aborted or error event for
\* the session and the active run, chatRunId and chatStream are null; an
\* event for another session or another run than the active one leaves the
\* chat state as it was and null is returned.
C37_RunLifecycle ==
    [][\A payload \in {None} \cup { Some(e) : e \in ChatEvents } :
         handleChatEvent(payload)
           => /\ (ForActiveRun(chat, payload)
                    /\ payload[1].state \in {"final", "aborted", "error"})
                   => chat'.chatRunId = None /\ chat'.chatStream = None
              /\ ForAnother(chat, payload)
                   => /\ ChatState(chat') = ChatState(chat)
                      /\ chat'.handled = Some("null")]_vars

----------------------------------------------------------------------------
(* The skills and sessions views of the Control UI (controllers/skills.ts  *)
(* and controllers/sessions.ts).  ctrl.skills holds skillsLoading,         *)
(* skillsReport, skillsError and skillsBusyKey; ctrl.sessions holds        *)
(* sessionsLoading, sessionsResult and sessionsError.  A call is suspended *)
(* at its update request or at the status/list request of the load it     *)
(* awaits.  ctrl.done counts, per view, the update requests that resolved; *)
(* a status/list request is stamped with the count at the time it is       *)
(* issued, and a report carries the stamp of the request it came from.     *)

\* The calls of the controllers in one behaviour.
NumCalls == 2

CallIds == 1..NumCalls

SkillKeys == {"s1", "s2"}

Views == {"skills", "sessions"}

\* The functions that update and then load again, and the view of each.
SkillUpdates == {"updateSkillEnabled", "saveSkillApiKey", "installSkill"}

ViewOf(fn) == IF fn \in SkillUpdates \cup {"loadSkills"} THEN "skills" ELSE "sessions"

\* A view: loading flag, the report shown (None, or the stamp of the request
\* it came from), the error shown, the busy key (skills only).
View(loading, report, error, busyKey) ==
    [loading |-> loading, report |-> report, error |-> error, busyKey |-> busyKey]

\* A call: its function, where it is ("idle", "update", "load", "done"),
\* the stamp of the status/list request it awaits, the count its own update
\* request resolved at (0 for a load), and how it completed.
Call(fn, at, issuedAt, updatedAt, outcome) ==
    [fn |-> fn, at |-> at, issuedAt |-> issuedAt, updatedAt |-> updatedAt,
     outcome |-> outcome]

IdleCall == Call("none", "idle", 0, 0, "none")

\* The variables the views leave alone.
ctrlRest == <<coreVars, appVars, loads, chat, work>>

\* The gateway says hello, or the connection closes.
CtrlConnection(up) ==
    /\ ctrl' = [ctrl EXCEPT !.connected = up]
    /\ UNCHANGED ctrlRest

\* loadSkills / loadSessions up to the await: nothing when disconnected or
\* when a load is in progress   (skills.ts:15-20, sessions.ts:18-31)
Loads(c, view) == c.connected /\ ~c[view].loading

\* A call of loadSkills or loadSessions on its own.
Load_(id, fn) ==
    /\ ctrl.calls[id].at = "idle"
    /\ ctrl' = IF Loads(ctrl, ViewOf(fn))
         THEN [ctrl EXCEPT ![ViewOf(fn)].loading = TRUE,
                           ![ViewOf(fn)].error = None,
                           !.calls[id] = Call(fn, "load", ctrl.done[ViewOf(fn)], 0, "none")]
         ELSE [ctrl EXCEPT !.calls[id] = Call(fn, "done", 0, 0, "skipped")]
    /\ UNCHANGED ctrlRest

loadSkills(id) == Load_(id, "loadSkills")

loadSessions(id) == Load_(id, "loadSessions")

\* An updating function up to its await: the busy key is set and the error
\* cleared (skills), the update request is sent
\* (skills.ts:44-48, 58-63, 77-85, sessions.ts:47-52)
Update_(id, fn, key) ==
    /\ ctrl.calls[id].at = "idle"
    /\ ctrl' = IF ~ctrl.connected
         THEN [ctrl EXCEPT !.calls[id] = Call(fn, "done", 0, 0, "skipped")]
         ELSE IF fn \in SkillUpdates
           THEN [ctrl EXCEPT !.skills.busyKey = Some(key),
                             !.skills.error = None,
                             !.calls[id] = Call(fn, "update", 0, 0, "none")]
         ELSE [ctrl EXCEPT !.calls[id] = Call(fn, "update", 0, 0, "none")]
    /\ UNCHANGED ctrlRest

updateSkillEnabled(id, skillKey) == Update_(id, "updateSkillEnabled", skillKey)

saveSkillApiKey(id, skillKey) == Update_(id, "saveSkillApiKey", skillKey)

installSkill(id, name) == Update_(id, "installSkill", name)

patchSession(id, key) == Update_(id, "patchSession", key)

\* The busy key after an updating function finished: its finally block
\* (skills.ts:52-54, 67-69, 89-91); patchSession has none.
Finally(c, fn) ==
    IF fn \in SkillUpdates THEN [c EXCEPT !.skills.busyKey = None] ELSE c

\* The update request rejects: the error is shown, the function finishes
\* (skills.ts:50-54, sessions.ts:54-56)
UpdateRejects(id) ==
    /\ ctrl.calls[id].at = "update"
    /\ ctrl' = Finally([ctrl EXCEPT ![ViewOf(ctrl.calls[id].fn)].error = Some("err"),
                                   !.calls[id].at = "done",
                                   !.calls[id].outcome = "error"],
                       ctrl.calls[id].fn)
    /\ UNCHANGED ctrlRest

\* The update request resolves and the function awaits the load: the load
\* returns at once when disconnected or when a load is in progress, and the
\* function finishes; otherwise it sends its status/list request
\* (skills.ts:48-49, 63-64, 85-86, sessions.ts:52-53)
UpdateResolves(id) ==
    /\ ctrl.calls[id].at = "update"
    /\ \E view \in {ViewOf(ctrl.calls[id].fn)} :
         ctrl' = IF Loads(ctrl, view)
           THEN [ctrl EXCEPT !.done[view] = @ + 1,
                             ![view].loading = TRUE,
                             ![view].error = None,
                             !.calls[id].at = "load",
                             !.calls[id].issuedAt = ctrl.done[view] + 1,
                             !.calls[id].updatedAt = ctrl.done[view] + 1]
           ELSE Finally([ctrl EXCEPT !.done[view] = @ + 1,
                                     !.calls[id].at = "done",
                                     !.calls[id].updatedAt = ctrl.done[view] + 1,
                                     !.calls[id].outcome = "ok"],
                        ctrl.calls[id].fn)
    /\ UNCHANGED ctrlRest

\* The status/list request of a call settles: with a report, with
\* undefined, or rejected; the loading flag is cleared, and an updating
\* function finishes   (skills.ts:20-28, sessions.ts:31-39)
LoadSettles(id, res) ==
    /\ ctrl.calls[id].at = "load"
    /\ \E view \in {ViewOf(ctrl.calls[id].fn)} :
         ctrl' = Finally([ctrl EXCEPT
                     ![view].report = IF res = "report"
                                        THEN Some(ctrl.calls[id].issuedAt) ELSE @,
                     ![view].error = IF res = "rejected" THEN Some("err") ELSE @,
                     ![view].loading = FALSE,
                     !.calls[id].at = "done",
                     !.calls[id].outcome = "ok"],
                   ctrl.calls[id].fn)
    /\ UNCHANGED ctrlRest

CtrlInit ==
    /\ CoreIdleVars /\ AppIdleVars /\ LoadsIdleVars
    /\ chat = <<>> /\ work = <<>>
    /\ ctrl = [connected |-> TRUE,
               skills |-> View(FALSE, None, None, None),
               sessions |-> View(FALSE, None, None, None),
               done |-> [skills |-> 0, sessions |-> 0],
               calls |-> [id \in CallIds |-> IdleCall]]

CtrlNext ==
    \/ \E up \in BOOLEAN : CtrlConnection(up)
    \/ \E id \in CallIds : loadSkills(id)
    \/ \E id \in CallIds : loadSessions(id)
    \/ \E id \in CallIds, key \in SkillKeys : updateSkillEnabled(id, key)
    \/ \E id \in CallIds, key \in SkillKeys : saveSkillApiKey(id, key)
    \/ \E id \in CallIds, key \in SkillKeys : installSkill(id, key)
    \/ \E id \in CallIds, key \in SkillKeys : patchSession(id, key)
    \/ \E id \in CallIds : UpdateRejects(id)
    \/ \E id \in CallIds : UpdateResolves(id)
    \/ \E id \in CallIds, res \in {"report", "undefined", "rejected"} : LoadSettles(id, res)

CtrlSpec == CtrlInit /\ [][CtrlNext]_vars

----------------------------------------------------------------------------
(* Claims about the report shown after an update.                          *)

IsUpdate(fn) == fn \in SkillUpdates \cup {"patchSession"}

\* The call is an updating function that finishes without error in this
\* step.
CompletesOk(id) ==
    /\ IsUpdate(ctrl.calls[id].fn)
    /\ ctrl.calls[id].at # "done"
    /\ ctrl'.calls[id].at = "done"
    /\ ctrl'.calls[id].outcome = "ok"

\* The report shown came from a request issued after the update request of
\* the call resolved.
FreshFor(c, id) ==
    /\ c[ViewOf(c.calls[id].fn)].report # None
    /\ c[ViewOf(c.calls[id].fn)].report[1] >= c.calls[id].updatedAt

\* A skill update is in flight.
SkillUpdateInFlight(c) ==
    \E id \in CallIds : c.calls[id].fn \in SkillUpdates /\ c.calls[id].at \in {"update", "load"}

\* C38: when updateSkillEnabled, saveSkillApiKey, installSkill or
\* patchSession completes without error, the report shown is the result of
\* a status/list request issued after the update request completed; and
\* skillsBusyKey is non-null while a skill update is in flight.
C38_FreshAfterUpdate ==
    /\ [][\A id \in CallIds : CompletesOk(id) => FreshFor(ctrl', id)]_vars
    /\ [](SkillUpdateInFlight(ctrl) => ctrl.skills.busyKey # None)

----------------------------------------------------------------------------
(* The work activity store of the macOS app (WorkActivityStore.swift).     *)
(* work holds jobs, tools, currentSessionKey, current, iconState,          *)
(* lastToolLabel, lastToolUpdatedAt and toolSeqBySession, the delayed      *)
(* clears that are asleep, the clock that Date() reads, and history: the   *)
(* number of calls handled, the tool starts handled per session, and what  *)
(* the last delayed clear did.  A delayed clear may wake at any time after *)
(* it was scheduled.                                                       *)

\* The most calls of handleJob and handleTool in one behaviour.
MaxWorkEvents == 4

\* The values Date() takes.
WorkTimes == {0, 1}

mainSessionKey == "main"

WorkSessionKeys == {"main", "a", "b"}

JobStates == {"started", "Streaming", "done", "error"}

ToolPhases == {"start", "Start", "result"}

ToolNames == {None, Some("Bash")}

\* String.lowercased() on the states, phases and tool names above.
lowercased(str) ==
    CASE str = "Streaming" -> "streaming"
      [] str = "Start" -> "start"
      [] str = "Bash" -> "bash"
      [] OTHER -> str

\* role(for:)   (WorkActivityStore.swift:163-165)
role(sessionKey) == IF sessionKey = mainSessionKey THEN "main" ELSE "other"

\* mapToolKind   (WorkActivityStore.swift:199-208)
mapToolKind(name) ==
    IF name = None THEN "other"
    ELSE IF lowercased(name[1]) \in {"bash", "shell"} THEN "bash"
    ELSE IF lowercased(name[1]) \in {"read", "write", "edit", "attach"}
      THEN lowercased(name[1])
    ELSE "other"

\* buildLabel with neither arguments nor meta   (WorkActivityStore.swift:210-232)
buildLabel(kind) == IF kind = "other" THEN "tool" ELSE kind

Activity(sessionKey, kind, label, at) ==
    [sessionKey |-> sessionKey, role |-> role(sessionKey), kind |-> kind,
     label |-> label, startedAt |-> at, lastUpdate |-> at]

\* isActive(sessionKey:)   (WorkActivityStore.swift:167-169)
isActive(w, sessionKey) == w.jobs[sessionKey] # None \/ w.tools[sessionKey] # None

\* lastUpdate(for:), with -1 for the distant past   (WorkActivityStore.swift:171-173)
lastUpdateFor(w, sessionKey) ==
    LET j == IF w.jobs[sessionKey] = None THEN -1 ELSE w.jobs[sessionKey][1].lastUpdate
        t == IF w.tools[sessionKey] = None THEN -1 ELSE w.tools[sessionKey][1].lastUpdate
    IN IF j > t THEN j ELSE t

\* currentActivity(for:): the tool if present, otherwise the job
\* (WorkActivityStore.swift:175-178)
currentActivity(w, sessionKey) ==
    IF w.tools[sessionKey] # None THEN w.tools[sessionKey] ELSE w.jobs[sessionKey]

\* deriveIconState   (WorkActivityStore.swift:188-197)
deriveIconState(w) ==
    IF w.currentSessionKey = None \/ currentActivity(w, w.currentSessionKey[1]) = None
      THEN <<"idle">>
    ELSE IF currentActivity(w, w.currentSessionKey[1])[1].role = "main"
      THEN <<"workingMain", currentActivity(w, w.currentSessionKey[1])[1].kind>>
    ELSE <<"workingOther", currentActivity(w, w.currentSessionKey[1])[1].kind>>

\* The current key after refreshDerivedState dropped an inactive one.
RefreshedKey(w) ==
    IF w.currentSessionKey # None /\ ~isActive(w, w.currentSessionKey[1])
      THEN None ELSE w.currentSessionKey

\* The store with the current key set.
WithKey(w, key) == [w EXCEPT !.currentSessionKey = key]

\* The store with current and iconState derived from the current key.
Derived(w) ==
    [w EXCEPT !.current = IF w.currentSessionKey = None THEN None
                          ELSE currentActivity(w, w.currentSessionKey[1]),
              !.iconState = deriveIconState(w)]

\* refreshDerivedState   (WorkActivityStore.swift:180-186)
refreshDerivedState(w) == Derived(WithKey(w, RefreshedKey(w)))

\* The sessions with a job or a tool.
ActiveKeys(w) == { k \in WorkSessionKeys : isActive(w, k) }

\* pickNextSession: main if active, otherwise a session of the latest
\* lastUpdate (any of them on a tie), nil when none is active
\* (WorkActivityStore.swift:150-161)
pickNextSession(w) ==
    IF isActive(w, mainSessionKey) THEN {Some(mainSessionKey)}
    ELSE IF ActiveKeys(w) = {} THEN {None}
    ELSE { Some(k) : k \in { k \in ActiveKeys(w) :
               \A other \in ActiveKeys(w) : lastUpdateFor(w, other) <= lastUpdateFor(w, k) } }

\* The activity takes the current session: main always, another session
\* only when there is no active current session
\* (WorkActivityStore.swift:111-115, 122-126)
Takes_Always(w, activity) == TRUE

Takes(w, activity) ==
    \/ activity.role = "main"
    \/ w.currentSessionKey = None
    \/ ~isActive(w, w.currentSessionKey[1])

\* The store with the activity as the current session if it takes it.
Taken(w, activity) ==
    IF Takes(w, activity) THEN WithKey(w, Some(activity.sessionKey)) ELSE w

\* setJobActive   (WorkActivityStore.swift:108-117)
setJobActive(w, activity) ==
    refreshDerivedState(Taken([w EXCEPT !.jobs[activity.sessionKey] = Some(activity)],
                              activity))

\* setToolActive   (WorkActivityStore.swift:119-128)
setToolActive(w, activity) ==
    refreshDerivedState(Taken([w EXCEPT !.tools[activity.sessionKey] = Some(activity)],
                              activity))

\* After a removal: the stores that pickNextSession and refreshDerivedState
\* can leave   (WorkActivityStore.swift:134-137, 144-147)
AfterRemoval(w, sessionKey) ==
    IF w.currentSessionKey = Some(sessionKey) /\ ~isActive(w, sessionKey)
      THEN { refreshDerivedState(WithKey(w, next)) : next \in pickNextSession(w) }
    ELSE { refreshDerivedState(w) }

\* clearJob   (WorkActivityStore.swift:130-138)
clearJob(w, sessionKey) ==
    IF w.jobs[sessionKey] = None THEN {w}
    ELSE AfterRemoval([w EXCEPT !.jobs[sessionKey] = None], sessionKey)

\* clearTool   (WorkActivityStore.swift:140-148)
clearTool(w, sessionKey) ==
    IF w.tools[sessionKey] = None THEN {w}
    ELSE AfterRemoval([w EXCEPT !.tools[sessionKey] = None], sessionKey)

\* The variables the work activity store leaves alone.
workRest == <<coreVars, appVars, loads, chat, ctrl>>

\* One more call handled.
Counted(w) == [w EXCEPT !.events = @ + 1]

\* handleJob(sessionKey:state:)   (WorkActivityStore.swift:32-48)
handleJob(sessionKey, st) ==
    /\ work.events < MaxWorkEvents
    /\ IF lowercased(st) \in {"started", "streaming"}
         THEN work' = Counted(setJobActive(work, Activity(sessionKey, "job", "job", work.now)))
         ELSE \E w1 \in clearTool(work, sessionKey) :
                \E w2 \in clearJob(w1, sessionKey) : work' = Counted(w2)
    /\ UNCHANGED workRest

\* The tool activity of handleTool.
ToolActivity(sessionKey, name, at) ==
    Activity(sessionKey, mapToolKind(name), buildLabel(mapToolKind(name)), at)

\* The delayed clear a tool result schedules: the session, the sequence
\* number read, and (history) the tool starts handled so far.
DelayedClear(w, sessionKey) ==
    [id |-> w.events, key |-> sessionKey, seq |-> w.toolSeqBySession[sessionKey],
     startsSeen |-> w.starts[sessionKey]]

\* handleTool(sessionKey:phase:name:meta:args:)   (WorkActivityStore.swift:50-86)
handleTool(sessionKey, phase, name) ==
    /\ work.events < MaxWorkEvents
    /\ IF lowercased(phase) = "start"
         THEN work' = Counted(setToolActive(
                [work EXCEPT !.lastToolLabel = Some(buildLabel(mapToolKind(name))),
                             !.lastToolUpdatedAt = Some(work.now),
                             !.toolSeqBySession[sessionKey] = @ + 1,
                             !.starts[sessionKey] = @ + 1],
                ToolActivity(sessionKey, name, work.now)))
         ELSE work' = Counted([work EXCEPT
                !.sleeping = @ \cup {DelayedClear(work, sessionKey)}])
    /\ UNCHANGED workRest

\* The delayed clear applies: no tool started in the session since the
\* result   (WorkActivityStore.swift:80)
SeqMatches_Always(w, clear) == TRUE

SeqMatches(w, clear) == w.toolSeqBySession[clear.key] = clear.seq

\* What the last delayed clear did: it cleared a tool, it spared the tool
\* that started after its result, or it found no tool.
Woke(w, clear, before) ==
    [w EXCEPT !.sleeping = @ \ {clear},
              !.lastClear =
                 IF before.tools[clear.key] = None THEN "nothing"
                 ELSE IF w.tools[clear.key] = None THEN "cleared"
                 ELSE IF before.starts[clear.key] # clear.startsSeen THEN "spared"
                 ELSE "kept"]

\* The grace period of a delayed clear is over   (WorkActivityStore.swift:75-84)
DelayElapses(clear) ==
    /\ clear \in work.sleeping
    /\ IF SeqMatches(work, clear)
         THEN \E w1 \in clearTool([work EXCEPT !.lastToolUpdatedAt = Some(work.now)],
                                  clear.key) :
                work' = Woke(w1, clear, work)
         ELSE work' = Woke(work, clear, work)
    /\ UNCHANGED workRest

\* Time passes.
WorkTick ==
    /\ work.now + 1 \in WorkTimes
    /\ work' = [work EXCEPT !.now = @ + 1]
    /\ UNCHANGED workRest

WorkInit ==
    /\ CoreIdleVars /\ AppIdleVars /\ LoadsIdleVars
    /\ chat = <<>> /\ ctrl = <<>>
    /\ work = [jobs |-> [k \in WorkSessionKeys |-> None],
               tools |-> [k \in WorkSessionKeys |-> None],
               currentSessionKey |-> None,
               current |-> None,
               iconState |-> <<"idle">>,
               lastToolLabel |-> None,
               lastToolUpdatedAt |-> None,
               toolSeqBySession |-> [k \in WorkSessionKeys |-> 0],
               sleeping |-> {},
               now |-> 0,
               events |-> 0,
               starts |-> [k \in WorkSessionKeys |-> 0],
               lastClear |-> "none"]

\* Some delayed clear wakes.
Wakes == \E clear \in work.sleeping : DelayElapses(clear)

\* The steps of the store with calls for the sessions given.
WorkSteps(keys) ==
    \/ \E k \in keys, st \in JobStates : handleJob(k, st)
    \/ \E k \in keys, phase \in ToolPhases, name \in ToolNames :
         handleTool(k, phase, name)
    \/ Wakes
    \/ WorkTick

WorkNext == WorkSteps(WorkSessionKeys)

WorkSpec == WorkInit /\ [][WorkNext]_vars

\* The sessions that send calls when delayed clears are followed to their
\* end: the main session and one other.
GraceSessionKeys == {"main", "a"}

WorkFairNext == WorkSteps(GraceSessionKeys)

\* A delayed clear wakes when its grace period is over: the sleeping tasks
\* are not left asleep for ever.
WorkFairSpec == WorkInit /\ [][WorkFairNext]_vars /\ WF_vars(Wakes)

----------------------------------------------------------------------------
(* Claims about the work activity store.                                   *)

\* C39: currentSessionKey is nil exactly when no session has a job or a
\* tool; current is the tool of the current session when it has one and
\* its job otherwise; and while the main session has a job or a tool the
\* current session is the main session; a session other than main becomes
\* the current session only when the session that was current is no longer
\* active.
C39_Selection ==
    /\ [](/\ work.currentSessionKey = None <=> ActiveKeys(work) = {}
          /\ work.currentSessionKey # None
               => /\ isActive(work, work.currentSessionKey[1])
                  /\ work.current = currentActivity(work, work.currentSessionKey[1])
          /\ work.currentSessionKey = None => work.current = None
          /\ isActive(work, mainSessionKey)
               => work.currentSessionKey = Some(mainSessionKey))
    /\ [][(/\ work.currentSessionKey # None
           /\ work'.currentSessionKey # work.currentSessionKey
           /\ work'.currentSessionKey \notin {None, Some(mainSessionKey)})
            => ~isActive(work', work.currentSessionKey[1])]_vars

\* C39 witness: another session started first, then main took over while
\* the other session is still active, and main shows its tool.
C39_Witness ==
    /\ work.currentSessionKey = Some(mainSessionKey)
    /\ isActive(work, "a")
    /\ work.jobs[mainSessionKey] # None
    /\ work.tools[mainSessionKey] # None
    /\ work.current = work.tools[mainSessionKey]
    /\ lastUpdateFor(work, "a") < lastUpdateFor(work, mainSessionKey)

\* The session has a tool, and a delayed clear is asleep since whose result
\* no tool started in the session.
AwaitsClear(k) ==
    /\ work.tools[k] # None
    /\ \E clear \in work.sleeping :
         clear.key = k /\ clear.startsSeen = work.starts[k]

\* C40: when a delayed clear wakes it clears the tool of its session only
\* if no tool started in that session since the result, and a tool is
\* removed by a delayed clear in no other case; and a delayed clear after
\* which no tool starts in its session leads to the tool of the session
\* being cleared.
C40_GracePeriod ==
    /\ [][\A clear \in work.sleeping :
            DelayElapses(clear)
              => /\ work'.tools[clear.key] # work.tools[clear.key]
                      => work.starts[clear.key] = clear.startsSeen
                 /\ (work.starts[clear.key] = clear.startsSeen)
                      => work'.tools[clear.key] = None
                 /\ \A k \in WorkSessionKeys \ {clear.key} :
                      work'.tools[k] = work.tools[k]]_vars
    /\ \A k \in WorkSessionKeys : AwaitsClear(k) ~> ~AwaitsClear(k)

\* C40 witness: the delayed clear of the first tool of a session woke after
\* the second tool had started, and left the second tool in place.
C40_Witness ==
    /\ work.lastClear = "spared"
    /\ work.tools["a"] # None
    /\ work.jobs["a"] # None
    /\ work.starts["a"] = 2
    /\ work.sleeping = {}

====
